---- MODULE Spec2Model ----
(***************************************************************************)
(* A model of reqcap's response path-filter engine (src/reqcap/filters.py):*)
(* the path parser, the value extractor and the projection builder         *)
(* (filter_response), over a heap of Python dict / list objects so that    *)
(* aliasing between the source document and the projection is visible.     *)
(*                                                                         *)
(* Strings are sequences of one-character strings, so that strip(),        *)
(* split("."), lower() and the parser's regular expressions are computed.  *)
(***************************************************************************)
EXTENDS Integers, Sequences, FiniteSets, TLC

(***************************************************************************)
(* Strings                                                                 *)
(***************************************************************************)

Digits == {"0", "1", "2", "3", "4", "5", "6", "7", "8", "9"}

DigitVal(c) ==
    CASE c = "0" -> 0 [] c = "1" -> 1 [] c = "2" -> 2 [] c = "3" -> 3
      [] c = "4" -> 4 [] c = "5" -> 5 [] c = "6" -> 6 [] c = "7" -> 7
      [] c = "8" -> 8 [] OTHER -> 9

\* str.lower() on one character; the documents and specs of this model use
\* the letters below.
LowerChar(c) ==
    CASE c = "A" -> "a" [] c = "B" -> "b" [] c = "C" -> "c" [] c = "D" -> "d"
      [] c = "I" -> "i" [] c = "O" -> "o" [] c = "X" -> "x" [] c = "Y" -> "y"
      [] OTHER -> c

Lower(s) == [i \in 1..Len(s) |-> LowerChar(s[i])]

RECURSIVE LStrip(_)
LStrip(s) == IF s # <<>> /\ Head(s) = " " THEN LStrip(Tail(s)) ELSE s

RECURSIVE RStrip(_)
RStrip(s) ==
    IF s # <<>> /\ s[Len(s)] = " " THEN RStrip(SubSeq(s, 1, Len(s) - 1)) ELSE s

\* str.strip()
Strip(s) == RStrip(LStrip(s))

\* Index of the first occurrence of character c in s at or after position
\* from, or 0.
RECURSIVE IndexOf(_, _, _)
IndexOf(s, c, from) ==
    IF from > Len(s) THEN 0
    ELSE IF s[from] = c THEN from
    ELSE IndexOf(s, c, from + 1)

\* str.split(".")
RECURSIVE SplitDots(_)
SplitDots(s) ==
    LET p == IndexOf(s, ".", 1)
    IN  IF p = 0 THEN <<s>>
        ELSE <<SubSeq(s, 1, p - 1)>> \o SplitDots(SubSeq(s, p + 1, Len(s)))

AllDigits(s) == \A i \in 1..Len(s) : s[i] \in Digits

RECURSIVE NatOf(_)
NatOf(s) ==
    IF s = <<>> THEN 0
    ELSE 10 * NatOf(SubSeq(s, 1, Len(s) - 1)) + DigitVal(s[Len(s)])

\* _INT_RE = ^-?\d+$
IntRe(s) ==
    \/ s # <<>> /\ AllDigits(s)
    \/ Len(s) >= 2 /\ Head(s) = "-" /\ AllDigits(Tail(s))

\* ^-?\d*$ : one bound of _SLICE_RE
SliceBoundRe(s) ==
    \/ AllDigits(s)
    \/ s # <<>> /\ Head(s) = "-" /\ AllDigits(Tail(s))

\* int(s) for a string matching ^-?\d*$ : ValueError on "-" alone
\* (the empty string is never passed to int()).
IntOfRaises(s) == s = <<"-">>

IntOf(s) == IF s # <<>> /\ Head(s) = "-" THEN 0 - NatOf(Tail(s)) ELSE NatOf(s)

(***************************************************************************)
(* Path segments                                                           *)
(*   kind "key"   : name                                                   *)
(*   kind "idx"   : a                                                      *)
(*   kind "iter"                                                           *)
(*   kind "slice" : (a if ha else None, b if hb else None)                 *)
(***************************************************************************)

KeySeg(name) == [kind |-> "key", name |-> name, a |-> 0, b |-> 0,
                 ha |-> FALSE, hb |-> FALSE]
IdxSeg(i) == [kind |-> "idx", name |-> <<>>, a |-> i, b |-> 0,
              ha |-> FALSE, hb |-> FALSE]
IterSeg == [kind |-> "iter", name |-> <<>>, a |-> 0, b |-> 0,
            ha |-> FALSE, hb |-> FALSE]
SliceSeg(ha, a, hb, b) == [kind |-> "slice", name |-> <<>>,
                           a |-> IF ha THEN a ELSE 0,
                           b |-> IF hb THEN b ELSE 0,
                           ha |-> ha, hb |-> hb]

\* _classify_bracket once the slice pattern has matched, g1 and g2 being its
\* two groups: [err, seg]; err is the ValueError of int("-").
ClassifySlice(g1, g2) ==
    IF (g1 # <<>> /\ IntOfRaises(g1)) \/ (g2 # <<>> /\ IntOfRaises(g2))
    THEN [err |-> TRUE, seg |-> IterSeg]
    ELSE [err |-> FALSE,
          seg |-> SliceSeg(g1 # <<>>, IntOf(g1), g2 # <<>>, IntOf(g2))]

\* _classify_bracket, colon being the position of the first ":" (0: none)
ClassifyAt(content, colon) ==
    IF content = <<>> THEN [err |-> FALSE, seg |-> IterSeg]
    ELSE IF /\ colon > 0
            /\ SliceBoundRe(SubSeq(content, 1, colon - 1))
            /\ SliceBoundRe(SubSeq(content, colon + 1, Len(content)))
    THEN ClassifySlice(SubSeq(content, 1, colon - 1),
                       SubSeq(content, colon + 1, Len(content)))
    ELSE IF IntRe(content) THEN [err |-> FALSE, seg |-> IdxSeg(IntOf(content))]
    ELSE [err |-> FALSE, seg |-> KeySeg(content)]

\* _classify_bracket: [err, seg]
ClassifyBracket(content) == ClassifyAt(content, IndexOf(content, ":", 1))

ConsGroup(g, rest) == [ok |-> rest.ok, groups |-> <<g>> \o rest.groups]

\* The bracket groups of ((?:\[[^\]]*\])+)$ : s must be "[" .. "]" groups up
\* to its end.  [ok, groups] with the raw contents of the groups.
RECURSIVE BracketGroups(_)
BracketGroupsAt(s, close) ==
    IF close = 0 THEN [ok |-> FALSE, groups |-> <<>>]
    ELSE ConsGroup(SubSeq(s, 2, close - 1),
                   BracketGroups(SubSeq(s, close + 1, Len(s))))

BracketGroups(s) ==
    IF s = <<>> THEN [ok |-> TRUE, groups |-> <<>>]
    ELSE IF Head(s) # "[" THEN [ok |-> FALSE, groups |-> <<>>]
    ELSE BracketGroupsAt(s, IndexOf(s, "]", 2))

ConsSeg(c, rest) == [err |-> c.err \/ rest.err, segs |-> <<c.seg>> \o rest.segs]

\* The segments of the bracket groups, in order.
RECURSIVE ClassifyAll(_)
ClassifyAll(groups) ==
    IF groups = <<>> THEN [err |-> FALSE, segs |-> <<>>]
    ELSE ConsSeg(ClassifyBracket(Strip(Head(groups))), ClassifyAll(Tail(groups)))

\* A part without brackets: a bare number is an index, anything else a key.
PlainPart(part) ==
    IF IntRe(part) THEN [err |-> FALSE, segs |-> <<IdxSeg(IntOf(part))>>]
    ELSE [err |-> FALSE, segs |-> <<KeySeg(part)>>]

\* key_part, if any, then the segments of the brackets
WithKey(key_part, cl) ==
    [err |-> cl.err,
     segs |-> (IF key_part # <<>> THEN <<KeySeg(key_part)>> ELSE <<>>) \o cl.segs]

\* The bracket pattern applied to part: bg.ok says whether it matched.
ParseBrackets(part, key_part, bg) ==
    IF bg.ok THEN WithKey(key_part, ClassifyAll(bg.groups)) ELSE PlainPart(part)

\* open is the position of the first "[" of part (0: none)
ParseAt(part, open) ==
    IF open = 0 THEN PlainPart(part)
    ELSE ParseBrackets(part, Strip(SubSeq(part, 1, open - 1)),
                       BracketGroups(SubSeq(part, open, Len(part))))

ParseStripped(part) ==
    IF part = <<>> THEN [err |-> FALSE, segs |-> <<>>]
    ELSE ParseAt(part, IndexOf(part, "[", 1))

\* One dot-separated part of the path (the body of the for loop).
ParsePart(rawPart) == ParseStripped(Strip(rawPart))

JoinSegs(p, rest) == [err |-> p.err \/ rest.err, segs |-> p.segs \o rest.segs]

RECURSIVE ParseParts(_)
ParseParts(parts) ==
    IF parts = <<>> THEN [err |-> FALSE, segs |-> <<>>]
    ELSE JoinSegs(ParsePart(Head(parts)), ParseParts(Tail(parts)))

\* _parse_path_segments: [err, segs]; err is an uncaught ValueError.
parse_path_segments(path) == ParseParts(SplitDots(Strip(path)))

(***************************************************************************)
(* JSON values and the heap                                                *)
(*                                                                         *)
(* A value is a record [t, n, s, c]: t is "null", "num", "str", "obj",     *)
(* "arr" or "ref".  A document outside the heap is a tree whose Objects and*)
(* Arrays carry their members in c, a sequence of [k, v] (k is <<>> for    *)
(* Array elements).  On the heap, every dict and list is a cell with an    *)
(* address (its index in the heap), and the members' values are scalars or *)
(* references [t |-> "ref", n |-> address]: two references to one address  *)
(* are one Python object.                                                  *)
(***************************************************************************)

Null == [t |-> "null", n |-> 0, s |-> <<>>, c |-> <<>>]
Num(k) == [t |-> "num", n |-> k, s |-> <<>>, c |-> <<>>]
Ref(a) == [t |-> "ref", n |-> a, s |-> <<>>, c |-> <<>>]
Obj(members) == [t |-> "obj", n |-> 0, s |-> <<>>, c |-> members]
Arr(items) == [t |-> "arr", n |-> 0, s |-> <<>>,
               c |-> [i \in 1..Len(items) |-> [k |-> <<>>, v |-> items[i]]]]
KV(key, value) == [k |-> key, v |-> value]
EmptyObj == Obj(<<>>)

IsDict(h, v) == v.t = "ref" /\ h[v.n].t = "obj"
IsList(h, v) == v.t = "ref" /\ h[v.n].t = "arr"

\* Loading a tree onto the heap: [h, v] with v the scalar or the reference
\* to the new cell.
RECURSIVE Alloc(_, _)
StoreMember(a, addr, key) == [a.h EXCEPT ![addr].c = Append(@, KV(key, a.v))]

RECURSIVE AllocMembers(_, _, _)
AllocMembers(h, addr, members) ==
    IF members = <<>> THEN h
    ELSE AllocMembers(StoreMember(Alloc(h, Head(members).v), addr,
                                  Head(members).k),
                      addr, Tail(members))

Alloc(h, tree) ==
    IF tree.t \in {"obj", "arr"}
    THEN [h |-> AllocMembers(Append(h, [tree EXCEPT !.c = <<>>]), Len(h) + 1,
                             tree.c),
          v |-> Ref(Len(h) + 1)]
    ELSE [h |-> h, v |-> tree]

\* The tree a heap value denotes.
RECURSIVE Deref(_, _)
Deref(h, v) ==
    IF v.t = "ref"
    THEN LET cell == h[v.n]
         IN  [cell EXCEPT !.c = [i \in 1..Len(cell.c) |->
                                   KV(cell.c[i].k, Deref(h, cell.c[i].v))]]
    ELSE v

\* Python's == on decoded JSON: dicts compare as mappings (key order is
\* immaterial), lists element-wise.
RECURSIVE JsonEq(_, _)
JsonEq(x, y) ==
    IF x.t # y.t THEN FALSE
    ELSE IF x.t = "obj"
    THEN /\ Len(x.c) = Len(y.c)
         /\ \A i \in 1..Len(x.c) : \E j \in 1..Len(y.c) :
                x.c[i].k = y.c[j].k /\ JsonEq(x.c[i].v, y.c[j].v)
    ELSE IF x.t = "arr"
    THEN /\ Len(x.c) = Len(y.c)
         /\ \A i \in 1..Len(x.c) : JsonEq(x.c[i].v, y.c[i].v)
    ELSE x = y

AllocEmpty(h, t) ==
    [h |-> Append(h, [t |-> t, n |-> 0, s |-> <<>>, c |-> <<>>]),
     v |-> Ref(Len(h) + 1)]

\* list.append(v) / insertion of a new dict key
HeapAppend(h, addr, k, v) == [h EXCEPT ![addr].c = Append(@, KV(k, v))]

\* Index (1-based) of the member named exactly key, or 0.
ExactIdx(members, key) ==
    IF \E i \in 1..Len(members) : members[i].k = key
    THEN CHOOSE i \in 1..Len(members) : members[i].k = key
    ELSE 0

\* d[key] = v : overwrite in place (i is the position of key), or insert last
DictSetAt(h, addr, i, key, v) ==
    IF i > 0 THEN [h EXCEPT ![addr].c[i].v = v] ELSE HeapAppend(h, addr, key, v)

DictSet(h, addr, key, v) == DictSetAt(h, addr, ExactIdx(h[addr].c, key), key, v)

\* Python list indexing: the 1-based position of arr[i] for a list of
\* length len, or 0 when arr[i] raises IndexError.
PyIndex(len, i) ==
    IF i >= 0 THEN (IF i < len THEN i + 1 ELSE 0)
    ELSE (IF 0 - i <= len THEN len + i + 1 ELSE 0)

\* target.append({}) with the fresh dict a = [h, v]
AppendFresh(a, addr) == HeapAppend(a.h, addr, <<>>, a.v)

\* while len(target) <= upto: target.append({})
RECURSIVE PadDicts(_, _, _)
PadDicts(h, addr, upto) ==
    IF Len(h[addr].c) <= upto
    THEN PadDicts(AppendFresh(AllocEmpty(h, "obj"), addr), addr, upto)
    ELSE h

\* while len(target) <= upto: target.append(None)
RECURSIVE PadNone(_, _, _)
PadNone(h, addr, upto) ==
    IF Len(h[addr].c) <= upto
    THEN PadNone(HeapAppend(h, addr, <<>>, Null), addr, upto)
    ELSE h

(***************************************************************************)
(* Case-insensitive lookup and value extraction                            *)
(***************************************************************************)

\* The first member whose name equals key case-insensitively, or 0.
FirstCiIdx(members, key) ==
    IF \E i \in 1..Len(members) : Lower(members[i].k) = Lower(key)
    THEN CHOOSE i \in 1..Len(members) :
            /\ Lower(members[i].k) = Lower(key)
            /\ \A j \in 1..(i - 1) : Lower(members[j].k) # Lower(key)
    ELSE 0

\* The key is matched without regard to an exact match.
CiGetFirstMatch(members, key) == FirstCiIdx(members, key)

\* _ci_get: the 1-based position of the member found, or 0 for (None, None).
ci_get(members, key) ==
    IF \E i \in 1..Len(members) : members[i].k = key
    THEN ExactIdx(members, key)
    ELSE FirstCiIdx(members, key)

NotFound == [found |-> FALSE, v |-> Null]

\* _get_value: [found, v]
RECURSIVE get_value(_, _, _)
\* current = the member at position i (0: no such member), then the rest
GetMember(h, current, i, rest) ==
    IF i = 0 THEN NotFound ELSE get_value(h, h[current.n].c[i].v, rest)

get_value(h, current, segments) ==
    IF segments = <<>> THEN [found |-> TRUE, v |-> current]
    ELSE IF current.t = "null" THEN NotFound
    ELSE IF Head(segments).kind = "key"
    THEN IF IsDict(h, current)
         THEN GetMember(h, current,
                        ci_get(h[current.n].c, Head(segments).name),
                        Tail(segments))
         ELSE NotFound
    ELSE IF Head(segments).kind = "idx"
    THEN IF IsList(h, current)
         THEN GetMember(h, current,
                        PyIndex(Len(h[current.n].c), Head(segments).a),
                        Tail(segments))
         ELSE NotFound
    ELSE NotFound

\* slice(start, stop).indices(len) for step 1: one clamped bound
SliceBound(has, x, len, default) ==
    IF ~has THEN default
    ELSE IF x < 0 THEN (IF x + len < 0 THEN 0 ELSE x + len)
    ELSE IF x >= len THEN len
    ELSE x

\* The pair of arr[i], i being the 1-based position (0: IndexError)
SinglePair(items, i) ==
    IF i = 0 THEN <<>> ELSE <<[j |-> i - 1, item |-> items[i].v]>>

\* zip(range(start, stop), arr[start:stop])
SliceRange(items, start, stop) ==
    IF start >= stop THEN <<>>
    ELSE [i \in 1..(stop - start) |->
            [j |-> start + i - 1, item |-> items[start + i].v]]

\* _resolve_list_segment: the (index, element) pairs, index 0-based
resolve_list_segment(items, seg) ==
    IF seg.kind = "iter"
    THEN [i \in 1..Len(items) |-> [j |-> i - 1, item |-> items[i].v]]
    ELSE IF seg.kind = "idx" THEN SinglePair(items, PyIndex(Len(items), seg.a))
    ELSE IF seg.kind = "slice"
    THEN SliceRange(items, SliceBound(seg.ha, seg.a, Len(items), 0),
                    SliceBound(seg.hb, seg.b, Len(items), Len(items)))
    ELSE <<>>

(***************************************************************************)
(* Building the result tree.  The operators that write return the new heap *)
(* and err = TRUE when the Python code raises (IndexError).                *)
(***************************************************************************)

\* _ensure_container, from the i-th segment on: [err, h, target]
RECURSIVE EnsureFrom(_, _, _, _)

\* target[seg] = child for the new container a = [h, v]; target = child
EnsureNew(a, target, segments, i) ==
    EnsureFrom(DictSet(a.h, target.n, segments[i].name, a.v), a.v, segments,
               i + 1)

\* seg is a key and target a dict; ci = _ci_get(target, seg)
EnsureKey(h, target, segments, i, ci) ==
    IF ci = 0
    THEN EnsureNew(AllocEmpty(h, IF segments[i + 1].kind # "key" THEN "arr"
                                 ELSE "obj"),
                   target, segments, i)
    ELSE EnsureFrom(h, h[target.n].c[ci].v, segments, i + 1)

\* target = target[seg], pos being the position of target[seg]
EnsureAt(h, target, segments, i, pos) ==
    IF pos = 0 THEN [err |-> TRUE, h |-> h, target |-> target]
    ELSE EnsureFrom(h, h[target.n].c[pos].v, segments, i + 1)

\* seg is an int and target a list, already padded
EnsureIdx(h, target, segments, i) ==
    EnsureAt(h, target, segments, i,
             PyIndex(Len(h[target.n].c), segments[i].a))

EnsureFrom(h, target, segments, i) ==
    IF i >= Len(segments) THEN [err |-> FALSE, h |-> h, target |-> target]
    ELSE IF segments[i].kind = "key" /\ IsDict(h, target)
    THEN EnsureKey(h, target, segments, i,
                   ci_get(h[target.n].c, segments[i].name))
    ELSE IF segments[i].kind = "idx" /\ IsList(h, target)
    THEN EnsureIdx(PadDicts(h, target.n, segments[i].a), target, segments, i)
    ELSE EnsureFrom(h, target, segments, i + 1)

ensure_container(h, target, segments) == EnsureFrom(h, target, segments, 1)

\* target[last] = value, pos being the position of target[last]
SetAtPos(h, addr, pos, value) ==
    IF pos = 0 THEN [err |-> TRUE, h |-> h]
    ELSE [err |-> FALSE, h |-> [h EXCEPT ![addr].c[pos].v = value]]

\* target[last] = value on the list at addr, already padded
SetIndex(h, addr, last, value) ==
    SetAtPos(h, addr, PyIndex(Len(h[addr].c), last), value)

\* The end of _set_in_result, e being what _ensure_container returned
SetLast(e, last, value) ==
    IF e.err THEN [err |-> TRUE, h |-> e.h]
    ELSE IF last.kind = "key" /\ IsDict(e.h, e.target)
    THEN [err |-> FALSE, h |-> DictSet(e.h, e.target.n, last.name, value)]
    ELSE IF last.kind = "idx" /\ IsList(e.h, e.target)
    THEN SetIndex(PadNone(e.h, e.target.n, last.a), e.target.n, last.a, value)
    ELSE [err |-> FALSE, h |-> e.h]

\* _set_in_result: [err, h]
set_in_result(h, result, segments, value) ==
    IF segments = <<>> THEN [err |-> FALSE, h |-> h]
    ELSE SetLast(ensure_container(h, result, segments),
                 segments[Len(segments)], value)

(***************************************************************************)
(* Applying a single filter spec                                           *)
(***************************************************************************)

\* The first collection segment of _apply_spec (iterate, slice or negative
\* index), 1-based, or 0.
IsCollSeg(seg) == seg.kind \in {"iter", "slice"} \/ (seg.kind = "idx" /\ seg.a < 0)

CollIdx(segments) ==
    IF \E i \in 1..Len(segments) : IsCollSeg(segments[i])
    THEN CHOOSE i \in 1..Len(segments) :
            /\ IsCollSeg(segments[i])
            /\ \A j \in 1..(i - 1) : ~IsCollSeg(segments[j])
    ELSE 0

\* "Navigate / create the list container in result": [h, container]
RECURSIVE NavigatePrefix(_, _, _, _)

\* container[seg] = child for the new container a = [h, v]
NavigateNew(a, container, prefix, idx_p) ==
    NavigatePrefix(DictSet(a.h, container.n, prefix[idx_p].name, a.v), a.v,
                   prefix, idx_p + 1)

\* seg is a key and container a dict; ci = _ci_get(container, seg)
NavigateKey(h, container, prefix, idx_p, ci) ==
    IF ci = 0
    THEN NavigateNew(AllocEmpty(h, IF idx_p = Len(prefix) THEN "arr" ELSE "obj"),
                     container, prefix, idx_p)
    ELSE NavigatePrefix(h, h[container.n].c[ci].v, prefix, idx_p + 1)

\* container = container[seg] on the list container, already padded
NavigateIdx(h, container, prefix, idx_p) ==
    NavigatePrefix(h, h[container.n].c[prefix[idx_p].a + 1].v, prefix, idx_p + 1)

NavigatePrefix(h, container, prefix, idx_p) ==
    IF idx_p > Len(prefix) THEN [h |-> h, container |-> container]
    ELSE IF prefix[idx_p].kind = "key" /\ IsDict(h, container)
    THEN NavigateKey(h, container, prefix, idx_p,
                     ci_get(h[container.n].c, prefix[idx_p].name))
    ELSE IF prefix[idx_p].kind = "idx" /\ IsList(h, container)
    THEN NavigateIdx(PadDicts(h, container.n, prefix[idx_p].a), container,
                     prefix, idx_p)
    ELSE NavigatePrefix(h, container, prefix, idx_p + 1)

\* while len(container) < len(arr): container.append({})
RECURSIVE PadToSource(_, _, _)
PadToSource(h, container, arr) ==
    IF Len(h[container].c) < Len(h[arr].c)
    THEN PadToSource(AppendFresh(AllocEmpty(h, "obj"), container), container, arr)
    ELSE h

\* container[pos] = {} for the fresh dict a = [h, v]
PutFresh(a, container, pos) == [a.h EXCEPT ![container].c[pos].v = a.v]

\* if not isinstance(container[j], dict): container[j] = {}
EnsureDictAt(h, container, pos) ==
    IF IsDict(h, h[container].c[pos].v) THEN h
    ELSE PutFresh(AllocEmpty(h, "obj"), container, pos)

\* The loop of the iterate branch: [err, h]
RECURSIVE IterateLoop(_, _, _, _)

IterateNext(r, container, pairs, suffix) ==
    IF r.err THEN r ELSE IterateLoop(r.h, container, Tail(pairs), suffix)

\* _set_in_result(container[j], suffix, value)
IterateSet(h, container, pairs, suffix, value) ==
    IterateNext(set_in_result(h, h[container].c[Head(pairs).j + 1].v, suffix,
                              value),
                container, pairs, suffix)

\* g = _get_value(item, suffix)
IterateFound(h, container, pairs, suffix, g) ==
    IF g.found
    THEN IterateSet(EnsureDictAt(h, container, Head(pairs).j + 1), container,
                    pairs, suffix, g.v)
    ELSE IterateLoop(h, container, Tail(pairs), suffix)

IterateLoop(h, container, pairs, suffix) ==
    IF pairs = <<>> THEN [err |-> FALSE, h |-> h]
    ELSE IF suffix # <<>>
    THEN IterateFound(h, container, pairs, suffix,
                      get_value(h, Head(pairs).item, suffix))
    ELSE IterateLoop([h EXCEPT ![container].c[Head(pairs).j + 1].v
                                   = Head(pairs).item],
                     container, Tail(pairs), suffix)

\* The loop of the slice / negative index branch: [err, h]
RECURSIVE SliceLoop(_, _, _, _)

\* container.append(entry)
SliceNext(r, entry, container, pairs, suffix) ==
    IF r.err THEN r
    ELSE SliceLoop(HeapAppend(r.h, container, <<>>, entry), container,
                   Tail(pairs), suffix)

\* entry = {}; _set_in_result(entry, suffix, value), a being the fresh entry
SliceEntry(a, container, pairs, suffix, value) ==
    SliceNext(set_in_result(a.h, a.v, suffix, value), a.v, container, pairs,
              suffix)

\* g = _get_value(item, suffix)
SliceFound(h, container, pairs, suffix, g) ==
    IF g.found
    THEN SliceEntry(AllocEmpty(h, "obj"), container, pairs, suffix, g.v)
    ELSE SliceLoop(h, container, Tail(pairs), suffix)

SliceLoop(h, container, pairs, suffix) ==
    IF pairs = <<>> THEN [err |-> FALSE, h |-> h]
    ELSE IF suffix # <<>>
    THEN SliceFound(h, container, pairs, suffix,
                    get_value(h, Head(pairs).item, suffix))
    ELSE SliceLoop(HeapAppend(h, container, <<>>, Head(pairs).item), container,
                   Tail(pairs), suffix)

\* SetIfFound building the containers of the path even when the value was
\* not found.
SetEager(h, result, segments, g) ==
    IF g.found THEN set_in_result(h, result, segments, g.v)
    ELSE [err |-> ensure_container(h, result, segments).err,
          h |-> ensure_container(h, result, segments).h]

\* if found: _set_in_result(result, segments, value)
SetIfFound(h, result, segments, g) ==
    IF g.found THEN set_in_result(h, result, segments, g.v)
    ELSE [err |-> FALSE, h |-> h]

\* The "simple scalar path" branch of _apply_spec: [err, h]
ApplySimple(h, data, segments, result) ==
    SetIfFound(h, result, segments, get_value(h, data, segments))

\* The collection branch once the container nav = [h, container] is there
ApplyInto(nav, arr, pairs, coll_seg, suffix) ==
    IF ~IsList(nav.h, nav.container) THEN [err |-> FALSE, h |-> nav.h]
    ELSE IF coll_seg.kind = "iter"
    THEN IterateLoop(PadToSource(nav.h, nav.container.n, arr), nav.container.n,
                     pairs, suffix)
    ELSE SliceLoop(nav.h, nav.container.n, pairs, suffix)

\* pairs = _resolve_list_segment(arr, coll_seg)
ApplyPairs(h, arr, pairs, prefix, coll_seg, suffix, result) ==
    IF pairs = <<>> THEN [err |-> FALSE, h |-> h]
    ELSE ApplyInto(NavigatePrefix(h, result, prefix, 1), arr, pairs, coll_seg,
                   suffix)

\* The collection branch: g = _get_value(data, prefix)
ApplyCollection(h, g, prefix, coll_seg, suffix, result) ==
    IF ~g.found \/ ~IsList(h, g.v) THEN [err |-> FALSE, h |-> h]
    ELSE ApplyPairs(h, g.v.n, resolve_list_segment(h[g.v.n].c, coll_seg),
                    prefix, coll_seg, suffix, result)

\* _apply_spec once the collection segment is located (coll_idx, 0: none)
ApplySegments(h, data, segments, coll_idx, result) ==
    IF coll_idx = 0 THEN ApplySimple(h, data, segments, result)
    ELSE ApplyCollection(h,
                         get_value(h, data, SubSeq(segments, 1, coll_idx - 1)),
                         SubSeq(segments, 1, coll_idx - 1),
                         segments[coll_idx],
                         SubSeq(segments, coll_idx + 1, Len(segments)),
                         result)

\* _apply_spec after parsing: p = [err, segs]
ApplyParsed(h, data, p, result) ==
    IF p.err THEN [err |-> TRUE, h |-> h]
    ELSE IF p.segs = <<>> THEN [err |-> FALSE, h |-> h]
    ELSE ApplySegments(h, data, p.segs, CollIdx(p.segs), result)

\* _apply_spec(data, spec, result): [err, h]
apply_spec(h, data, spec, result) ==
    ApplyParsed(h, data, parse_path_segments(spec), result)

(***************************************************************************)
(* Public API                                                              *)
(***************************************************************************)

\* cleaned = [s.strip() for s in field_specs if s.strip()]
RECURSIVE Cleaned(_)
Cleaned(field_specs) ==
    IF field_specs = <<>> THEN <<>>
    ELSE (IF Strip(Head(field_specs)) # <<>> THEN <<Strip(Head(field_specs))>>
          ELSE <<>>) \o Cleaned(Tail(field_specs))

Contains(seq, x) == \E i \in 1..Len(seq) : seq[i] = x

\* PassThrough with the wildcard honoured only when it is the only spec
\* (cleaned == ["*"] in place of "*" in cleaned).
PassThroughStarAlone(h, data, field_specs) ==
    \/ field_specs = <<>>
    \/ Cleaned(field_specs) = <<>>
    \/ Cleaned(field_specs) = << <<"*">> >>
    \/ ~IsDict(h, data)

\* The early returns of filter_response: the input is handed back as is.
PassThrough(h, data, field_specs) ==
    \/ field_specs = <<>>
    \/ Cleaned(field_specs) = <<>>
    \/ Contains(Cleaned(field_specs), <<"*">>)
    \/ ~IsDict(h, data)

\* for spec in cleaned: _apply_spec(data, spec, result)
RECURSIVE ApplyAll(_, _, _, _)

ApplyRest(r, data, cleaned, result) ==
    IF r.err THEN r ELSE ApplyAll(r.h, data, Tail(cleaned), result)

ApplyAll(h, data, cleaned, result) ==
    IF cleaned = <<>> THEN [err |-> FALSE, h |-> h]
    ELSE ApplyRest(apply_spec(h, data, Head(cleaned), result), data, cleaned,
                   result)

\* return result, r being the outcome of the for loop
ReturnResult(r, result) == [err |-> r.err, h |-> r.h, ret |-> result]

\* result = {} (the fresh dict a = [h, v]), the for loop, return result
FilterInto(a, data, field_specs) ==
    ReturnResult(ApplyAll(a.h, data, Cleaned(field_specs), a.v), a.v)

\* filter_response(data, field_specs) as one call: [err, h, ret]
filter_response(h, data, field_specs) ==
    IF PassThrough(h, data, field_specs)
    THEN [err |-> FALSE, h |-> h, ret |-> data]
    ELSE FilterInto(AllocEmpty(h, "obj"), data, field_specs)

\* path.lower().startswith("body.")
BodyPrefix == <<"b", "o", "d", "y", ".">>
HasBodyPrefix(path) ==
    Len(path) >= 5 /\ Lower(SubSeq(path, 1, 5)) = BodyPrefix

\* The first Iterate or Slice segment of extract_value, 1-based, or 0.
ExtractCollIdx(segments) ==
    IF \E i \in 1..Len(segments) : segments[i].kind \in {"iter", "slice"}
    THEN CHOOSE i \in 1..Len(segments) :
            /\ segments[i].kind \in {"iter", "slice"}
            /\ \A j \in 1..(i - 1) : segments[j].kind \notin {"iter", "slice"}
    ELSE 0

\* The loop body with the test of ok left out: every selected element
\* contributes an entry.
CollectAlways(g) == <<g.v>>

\* ok, val = _get_value(item, suffix); if ok: results.append(val)
CollectFound(g) == IF g.found THEN <<g.v>> ELSE <<>>

\* The results list of extract_value's loop, as a sequence of heap values.
RECURSIVE Collect(_, _, _)
Collect(h, pairs, suffix) ==
    IF pairs = <<>> THEN <<>>
    ELSE (IF suffix = <<>> THEN <<Head(pairs).item>>
          ELSE CollectFound(get_value(h, Head(pairs).item, suffix)))
         \o Collect(h, Tail(pairs), suffix)

\* return results
ResultsList(h, results) ==
    [err |-> FALSE, v |-> Arr([i \in 1..Len(results) |-> Deref(h, results[i])])]

\* The collection branch of extract_value: g = _get_value(data, prefix)
ExtractCollection(h, g, coll_seg, suffix) ==
    IF ~g.found \/ ~IsList(h, g.v) THEN [err |-> FALSE, v |-> Null]
    ELSE ResultsList(h, Collect(h, resolve_list_segment(h[g.v.n].c, coll_seg),
                                suffix))

\* return value if found else None
ExtractFound(h, g) == [err |-> FALSE, v |-> IF g.found THEN Deref(h, g.v) ELSE Null]

ExtractSegments(h, data, segments, coll_idx) ==
    IF coll_idx # 0
    THEN ExtractCollection(h,
                           get_value(h, data, SubSeq(segments, 1, coll_idx - 1)),
                           segments[coll_idx],
                           SubSeq(segments, coll_idx + 1, Len(segments)))
    ELSE ExtractFound(h, get_value(h, data, segments))

ExtractParsed(h, data, p) ==
    IF p.err THEN [err |-> TRUE, v |-> Null]
    ELSE ExtractSegments(h, data, p.segs, ExtractCollIdx(p.segs))

\* extract_value with the prefix test left out: the path is parsed as given.
ExtractNoPrefix(h, data, path) ==
    ExtractParsed(h, data, parse_path_segments(path))

\* extract_value after path.strip()
ExtractStripped(h, data, path) ==
    ExtractParsed(h, data,
                  parse_path_segments(IF HasBodyPrefix(path)
                                      THEN SubSeq(path, 6, Len(path)) ELSE path))

\* extract_value(data, path): [err, v] with v the tree of the value returned
\* (Null for None, an Array for the results list).
extract_value(h, data, path) == ExtractStripped(h, data, Strip(path))

(***************************************************************************)
(* Inputs: the response bodies and the filter specs the calls are made with*)
(***************************************************************************)

Ka == <<"a">>
Kb == <<"b">>
Kc == <<"c">>
Kd == <<"d">>
Kx == <<"x">>
Ky == <<"y">>

\* {"a": {"b": 1, "c": 2}, "d": 3}
DocNested == Obj(<<KV(Ka, Obj(<<KV(Kb, Num(1)), KV(Kc, Num(2))>>)),
                   KV(Kd, Num(3))>>)
\* {"a": [{"x": 1, "y": 5}, {"y": 6}, {"x": 3}], "d": null}
DocItems == Obj(<<KV(Ka, Arr(<<Obj(<<KV(Kx, Num(1)), KV(Ky, Num(5))>>),
                               Obj(<<KV(Ky, Num(6))>>),
                               Obj(<<KV(Kx, Num(3))>>)>>)),
                  KV(Kd, Null)>>)
\* {"a": [[{"x": 1}, {"x": 2}], 7]}
DocArrays == Obj(<<KV(Ka, Arr(<<Arr(<<Obj(<<KV(Kx, Num(1))>>),
                                     Obj(<<KV(Kx, Num(2))>>)>>),
                                Num(7)>>))>>)
\* {"A": {"B": 1}, "d": 4}
DocUpper == Obj(<<KV(<<"A">>, Obj(<<KV(<<"B">>, Num(1))>>)), KV(Kd, Num(4))>>)
\* {"a": [{"b": [1, 2]}, {"b": [3]}]}
DocInner == Obj(<<KV(Ka, Arr(<<Obj(<<KV(Kb, Arr(<<Num(1), Num(2)>>))>>),
                               Obj(<<KV(Kb, Arr(<<Num(3)>>))>>)>>))>>)
\* [{"a": 1}]
DocTopArray == Arr(<<Obj(<<KV(Ka, Num(1))>>)>>)
\* 7
DocScalar == Num(7)

Docs == {DocNested, DocItems, DocArrays, DocUpper, DocInner, DocTopArray,
         DocScalar}

\* "a"
SpecA == <<"a">>
\* "A"
SpecUpperA == <<"A">>
\* "a.b"
SpecAB == <<"a", ".", "b">>
\* "a.B"
SpecAUpperB == <<"a", ".", "B">>
\* "d"
SpecD == <<"d">>
\* "m"
SpecMissing == <<"m">>
\* "a.m"
SpecAMissing == <<"a", ".", "m">>
\* "*"
SpecStarLit == <<"*">>
\* " * "
SpecStar == <<" ", "*", " ">>
\* " "
SpecBlank == <<" ">>
\* "."
SpecDot == <<".">>
\* "a[].x"
SpecIterX == <<"a", "[", "]", ".", "x">>
\* "a[]"
SpecIter == <<"a", "[", "]">>
\* "a[].X"
SpecIterUpperX == <<"a", "[", "]", ".", "X">>
\* "a[].m"
SpecIterMissing == <<"a", "[", "]", ".", "m">>
\* "a[0:2].x"
SpecSliceX == <<"a", "[", "0", ":", "2", "]", ".", "x">>
\* "a[1:]"
SpecSliceFrom1 == <<"a", "[", "1", ":", "]">>
\* "a[:1].m"
SpecSliceMissing == <<"a", "[", ":", "1", "]", ".", "m">>
\* "a[-1].x"
SpecLastX == <<"a", "[", "-", "1", "]", ".", "x">>
\* "a[-1]"
SpecLast == <<"a", "[", "-", "1", "]">>
\* "a[0].x"
SpecIdx0X == <<"a", "[", "0", "]", ".", "x">>
\* "a[2].x"
SpecIdx2X == <<"a", "[", "2", "]", ".", "x">>
\* "a.1"
SpecIdx1 == <<"a", ".", "1">>
\* "a[0][0]"
SpecNested00 == <<"a", "[", "0", "]", "[", "0", "]">>
\* "a[0][].x"
SpecNestedIterX == <<"a", "[", "0", "]", "[", "]", ".", "x">>
\* "a[0][-1]"
SpecNestedLast == <<"a", "[", "0", "]", "[", "-", "1", "]">>
\* "a[].b[-1]"
SpecIterBLast == <<"a", "[", "]", ".", "b", "[", "-", "1", "]">>
\* "a[-:]"
SpecBadSlice == <<"a", "[", "-", ":", "]">>

SpecStrings == {SpecStarLit,
                SpecA, SpecUpperA, SpecAB, SpecAUpperB,
                SpecD, SpecMissing, SpecAMissing, SpecStar,
                SpecBlank, SpecDot, SpecIterX, SpecIter,
                SpecIterUpperX, SpecIterMissing, SpecSliceX, SpecSliceFrom1,
                SpecSliceMissing, SpecLastX, SpecLast, SpecIdx0X,
                SpecIdx2X, SpecIdx1, SpecNested00, SpecNestedIterX,
                SpecNestedLast, SpecIterBLast, SpecBadSlice}

\* The largest number of specs in one call.
MaxSpecs == 2

RECURSIVE SeqsUpTo(_, _)
SeqsUpTo(S, n) ==
    IF n = 0 THEN {<<>>}
    ELSE LET shorter == SeqsUpTo(S, n - 1)
         IN  shorter \cup {Append(q, x) : q \in {r \in shorter : Len(r) = n - 1},
                                          x \in S}

(***************************************************************************)
(* The state machine: one call of filter_response(data, field_specs),      *)
(* followed by extract_value on what it returned.                          *)
(***************************************************************************)

VARIABLES
    doc,          \* the decoded body as it is before the call (a tree)
    field_specs,  \* the field_specs argument
    heap,         \* the Python objects
    data,         \* the data argument: a scalar or a reference
    cleaned,      \* the specs the for loop has still to apply
    result,       \* the result dict under construction
    pc,           \* "call", "loop", "returned", "raised", "extracted"
    ret,          \* the value filter_response returned
    ci_key,       \* the key argument of _ci_get
    actual,       \* what _ci_get returned: [found, k, v]
    ext           \* the last extract_value call on ret: [path, err, v]

\* The state of the other operations of the program; pc is shared.
VARIABLES
    expr,         \* the --assert expression
    status_code,  \* result.status_code of the response asserted on
    parsed,       \* what parse_assert returned: [err, path, op, expected]
    outcome,      \* what evaluate_assert returned: [err, passed, actual, message]
    snapshot,     \* the saved snapshot: [status_code, body]
    response,     \* the live response diffed against it: [status_code, body]
    diffs,        \* the list diff_snapshot returned
    templates,    \* the template files: lookup name -> [name, depends]
    requested,    \* the template given with -t
    frames,       \* the calls of _resolve_and_execute_deps in progress
    executed,     \* the templates whose request was sent, in order
    error,        \* the error the run ended with, "" if none
    cli_vars,     \* the -v options: name -> value
    exports,      \* the exports section of each template file: name -> path
    variables,    \* the variables dict of _cmd_template and, after it, of
                  \* each call of _resolve_and_execute_deps in progress
    responses,    \* result.body of the dependency requests sent, in order
    named         \* the dependency the error message names

\* One run of the command line once execute_request has returned.
VARIABLES
    mode,         \* "direct", "template", "curl" or "replay"
    result_error, \* result.error is set
    assert_exprs, \* the --assert expressions, in command-line order
    evaluations,  \* the number of evaluate_fn calls made
    effects,      \* what the run did so far, in order: [op, arg]
    export,       \* the --export options, in command-line order
    template,     \* the template run: [name, exports, snapshot]
    snapshot_ctx, \* [snapshot_name, diff_name]: --snapshot and --diff
    runs,         \* the number of the run, which is also its time
    last_saved    \* history: name -> the response last saved under it

\* The directories the run works with.
VARIABLES
    cli_override, \* the --snapshots-dir option, "" if not given
    config,       \* [value: defaults.snapshots_dir, dir: _config_dir]
    disk,         \* the file system: [dirs, files]
    default,      \* the default argument of resolve_resource_dir
    resolved      \* the path resolve_resource_dir returned

filterVars == <<doc, field_specs, heap, data, cleaned, result, ret, ext, ci_key,
                actual>>
assertVars == <<expr, status_code, parsed, outcome>>
diffVars == <<snapshot, response, diffs>>
depVars == <<templates, requested, frames, executed, error, cli_vars, exports,
            variables, responses, named>>

\* What a run is started with
runArgs == <<mode, result_error, assert_exprs, export, template, snapshot_ctx,
             runs>>

runVars == <<runArgs, evaluations, effects, last_saved>>

dirVars == <<cli_override, config, disk, default, resolved>>

vars == <<doc, field_specs, heap, data, cleaned, result, pc, ret, ext, ci_key,
          actual,
          assertVars, diffVars, depVars, runVars, dirVars>>

NoParse == [err |-> FALSE, path |-> <<>>, op |-> <<>>, expected |-> <<>>]
NoOutcome == [err |-> FALSE, passed |-> FALSE, actual |-> <<>>,
              message |-> <<>>]

\* No assertion is being evaluated.
AssertIdle ==
    /\ expr = <<>>
    /\ status_code = 0
    /\ parsed = NoParse
    /\ outcome = NoOutcome

\* No snapshot is being diffed.
DiffIdle ==
    /\ snapshot = [status_code |-> 0, body |-> Null]
    /\ response = [status_code |-> 0, body |-> Null]
    /\ diffs = <<>>

\* No template is being run.
DepsIdle ==
    /\ templates = <<>>
    /\ requested = <<>>
    /\ frames = <<>>
    /\ executed = <<>>
    /\ error = <<>>
    /\ cli_vars = <<>>
    /\ exports = <<>>
    /\ variables = <<>>
    /\ responses = <<>>
    /\ named = <<>>

\* Path(s) is a record [abs, parts]; None is the path without parts.
NoPath == [abs |-> FALSE, parts |-> <<>>]

\* No directory is being resolved.
DirIdle ==
    /\ cli_override = <<>>
    /\ config = [value |-> <<>>, dir |-> NoPath]
    /\ disk = [dirs |-> {}, files |-> <<>>]
    /\ default = NoPath
    /\ resolved = NoPath

\* No command line is being run.
NoTemplate == [name |-> <<>>, exports |-> <<>>,
               snapshot |-> [enabled |-> FALSE, name |-> <<>>]]

RunIdle ==
    /\ mode = <<>>
    /\ result_error = FALSE
    /\ assert_exprs = <<>>
    /\ evaluations = 0
    /\ effects = <<>>
    /\ export = <<>>
    /\ template = NoTemplate
    /\ snapshot_ctx = [snapshot_name |-> <<>>, diff_name |-> <<>>]
    /\ runs = 0
    /\ last_saved = <<>>

\* No filter_response or extract_value call on a body is in progress.
NoMember == [found |-> FALSE, k |-> <<>>, v |-> Null]

FilterIdle ==
    /\ ci_key = <<>>
    /\ actual = NoMember
    /\ doc = Null
    /\ field_specs = <<>>
    /\ heap = <<>>
    /\ data = Null
    /\ cleaned = <<>>
    /\ result = Null
    /\ ret = Null

NoExt == [path |-> <<>>, err |-> FALSE, v |-> Null]

Init ==
    /\ doc \in Docs
    /\ field_specs \in SeqsUpTo(SpecStrings, MaxSpecs)
    /\ heap = Alloc(<<>>, doc).h
    /\ data = Alloc(<<>>, doc).v
    /\ cleaned = <<>>
    /\ result = Null
    /\ pc = "call"
    /\ ret = Null
    /\ ext = NoExt
    /\ ci_key = <<>>
    /\ actual = NoMember
    /\ AssertIdle /\ DiffIdle /\ DepsIdle /\ RunIdle /\ DirIdle

\* filter_response up to the for loop: the early returns, or result = {}
Enter ==
    /\ pc = "call"
    /\ IF PassThrough(heap, data, field_specs)
       THEN /\ pc' = "returned"
            /\ ret' = data
            /\ UNCHANGED <<heap, cleaned, result>>
       ELSE /\ pc' = "loop"
            /\ heap' = AllocEmpty(heap, "obj").h
            /\ result' = AllocEmpty(heap, "obj").v
            /\ cleaned' = Cleaned(field_specs)
            /\ ret' = ret
    /\ UNCHANGED <<doc, field_specs, data, ext>>
    /\ UNCHANGED <<ci_key, actual, assertVars, diffVars, depVars, runVars,
                   dirVars>>

\* The heap after _apply_spec; an exception ends the call.
Applied(r) ==
    /\ heap' = r.h
    /\ pc' = IF r.err THEN "raised" ELSE "loop"

\* One iteration of the for loop: _apply_spec(data, spec, result)
ApplySpec ==
    /\ pc = "loop"
    /\ cleaned # <<>>
    /\ Applied(apply_spec(heap, data, Head(cleaned), result))
    /\ cleaned' = Tail(cleaned)
    /\ UNCHANGED <<doc, field_specs, data, result, ret, ext>>
    /\ UNCHANGED <<ci_key, actual, assertVars, diffVars, depVars, runVars,
                   dirVars>>

\* return result
Return ==
    /\ pc = "loop"
    /\ cleaned = <<>>
    /\ pc' = "returned"
    /\ ret' = result
    /\ UNCHANGED <<doc, field_specs, heap, data, cleaned, result, ext>>
    /\ UNCHANGED <<ci_key, actual, assertVars, diffVars, depVars, runVars,
                   dirVars>>

Extracted(path, e) == ext' = [path |-> path, err |-> e.err, v |-> e.v]

\* extract_value(ret, path) on the returned value, with one of the specs
Extract ==
    /\ pc = "returned"
    /\ \E i \in 1..Len(field_specs) :
          Extracted(field_specs[i], extract_value(heap, ret, field_specs[i]))
    /\ pc' = "extracted"
    /\ UNCHANGED <<doc, field_specs, heap, data, cleaned, result, ret>>
    /\ UNCHANGED <<ci_key, actual, assertVars, diffVars, depVars, runVars,
                   dirVars>>

Next == Enter \/ ApplySpec \/ Return \/ Extract

Spec == Init /\ [][Next]_vars

(***************************************************************************)
(* extract_value called on a response body, as --export does               *)
(***************************************************************************)

\* {"body": {"a": 1}, "a": 2}
DocBody == Obj(<<KV(<<"b", "o", "d", "y">>, Obj(<<KV(Ka, Num(1))>>)),
                 KV(Ka, Num(2))>>)

ExportDocs == Docs \cup {DocBody}

\* "body.a"
SpecBodyA == <<"b", "o", "d", "y", ".", "a">>
\* " a"
SpecSpaceA == <<" ", "a">>
\* "a[].b[]"
SpecIterBIter == <<"a", "[", "]", ".", "b", "[", "]">>
\* "a[0][1:].x"
SpecNestedSliceX == <<"a", "[", "0", "]", "[", "1", ":", "]", ".", "x">>
\* "a[-2:-1].y"
SpecSliceNegY == <<"a", "[", "-", "2", ":", "-", "1", "]", ".", "y">>
\* "[]"
SpecTopIter == <<"[", "]">>
\* ""
SpecEmpty == <<>>

ExportPaths == SpecStrings \cup {SpecBodyA, SpecSpaceA, SpecIterBIter,
                                 SpecNestedSliceX, SpecSliceNegY, SpecTopIter,
                                 SpecEmpty}

\* The spellings of the optional prefix a path is given with:
\* none, "body.", "Body."
PathPrefixes == {<<>>, BodyPrefix, <<"B", "o", "d", "y", ".">>}

ExportInit ==
    /\ doc \in ExportDocs
    /\ field_specs = <<>>
    /\ heap = Alloc(<<>>, doc).h
    /\ data = Alloc(<<>>, doc).v
    /\ cleaned = <<>>
    /\ result = Null
    /\ pc = "export"
    /\ ret = Null
    /\ ext = NoExt
    /\ ci_key = <<>>
    /\ actual = NoMember
    /\ AssertIdle /\ DiffIdle /\ DepsIdle /\ RunIdle /\ DirIdle

\* value = extract_value(result.body, path)
ExportValue ==
    /\ pc = "export"
    /\ \E pre \in PathPrefixes, p \in ExportPaths :
          Extracted(pre \o p, extract_value(heap, data, pre \o p))
    /\ pc' = "exported"
    /\ UNCHANGED <<doc, field_specs, heap, data, cleaned, result, ret>>
    /\ UNCHANGED <<ci_key, actual, assertVars, diffVars, depVars, runVars,
                   dirVars>>

ExportNext == ExportValue

ExportSpec == ExportInit /\ [][ExportNext]_vars

(***************************************************************************)
(* Key lookup: _ci_get on the dict a Key segment is looked up in           *)
(***************************************************************************)

\* The most members of the dict.
MaxMembers == 3

\* The names of the members, "a", "A", "b" and "B", and the keys looked
\* up, which are these and "c".
MemberNames == {Ka, <<"A">>, Kb, <<"B">>}
LookupKeys == MemberNames \cup {Kc}

\* A dict has each name once.  The members are numbered in insertion
\* order; the first is null in some dicts.
LookupDicts ==
    {Obj([i \in 1..Len(ks) |->
             KV(ks[i], IF i = 1 /\ nul THEN Null ELSE Num(i))]) :
        ks \in {q \in SeqsUpTo(MemberNames, MaxMembers) :
                   \A i, j \in 1..Len(q) : i # j => q[i] # q[j]},
        nul \in BOOLEAN}

LookupInit ==
    /\ doc \in LookupDicts
    /\ ci_key \in LookupKeys
    /\ actual = NoMember
    /\ heap = Alloc(<<>>, doc).h
    /\ data = Alloc(<<>>, doc).v
    /\ field_specs = <<>>
    /\ cleaned = <<>>
    /\ result = Null
    /\ ret = Null
    /\ ext = NoExt
    /\ pc = "lookup"
    /\ AssertIdle /\ DiffIdle /\ DepsIdle /\ RunIdle /\ DirIdle

\* The tuple _ci_get returns for the member at position i, (None, None)
\* for 0
CiReturn(members, i) ==
    IF i = 0 THEN NoMember
    ELSE [found |-> TRUE, k |-> members[i].k, v |-> members[i].v]

\* actual, val = _ci_get(current, seg)
CiGet ==
    /\ pc = "lookup"
    /\ actual' = CiReturn(heap[data.n].c, ci_get(heap[data.n].c, ci_key))
    /\ pc' = "looked"
    /\ UNCHANGED <<doc, field_specs, heap, data, cleaned, result, ret, ext, ci_key,
                   assertVars, diffVars, depVars, runVars, dirVars>>

LookupNext == CiGet

LookupSpec == LookupInit /\ [][LookupNext]_vars

(***************************************************************************)
(* Assertions: parse_assert and evaluate_assert                            *)
(***************************************************************************)

Str(s) == [t |-> "str", n |-> 0, s |-> s, c |-> <<>>]

\* str.find(sub) from position from on: the 1-based position of the first
\* occurrence, 0 for -1.
RECURSIVE Find(_, _, _)
Find(s, sub, from) ==
    IF from + Len(sub) - 1 > Len(s) THEN 0
    ELSE IF SubSeq(s, from, from + Len(sub) - 1) = sub THEN from
    ELSE Find(s, sub, from + 1)

NotEquals == <<"!", "=">>
Equals == <<"=">>

\* (expr[:idx].strip(), op, expr[idx + len(op):].strip())
SplitAt(e, idx, op) ==
    [err |-> FALSE,
     path |-> Strip(SubSeq(e, 1, idx - 1)),
     op |-> op,
     expected |-> Strip(SubSeq(e, idx + Len(op), Len(e)))]

\* The second test of parse_assert: idx = expr.find("=")
SplitEquals(e, idx) ==
    IF idx # 0 THEN SplitAt(e, idx, Equals)
    ELSE [err |-> TRUE, path |-> <<>>, op |-> <<>>, expected |-> <<>>]

\* parse_assert testing "=" before "!=": the first "=" always splits.
SplitEqualsFirst(e, idx) == SplitEquals(e, Find(e, Equals, 1))

\* The first test of parse_assert: idx = expr.find("!=")
SplitNotEquals(e, idx) ==
    IF idx # 0 THEN SplitAt(e, idx, NotEquals)
    ELSE SplitEquals(e, Find(e, Equals, 1))

\* parse_assert(expr): [err, path, op, expected], err for ValueError
parse_assert(e) == SplitNotEquals(e, Find(e, NotEquals, 1))

DigitChar(d) ==
    CASE d = 0 -> "0" [] d = 1 -> "1" [] d = 2 -> "2" [] d = 3 -> "3"
      [] d = 4 -> "4" [] d = 5 -> "5" [] d = 6 -> "6" [] d = 7 -> "7"
      [] d = 8 -> "8" [] OTHER -> "9"

\* str(n) for an int n >= 0
RECURSIVE NatStr(_)
NatStr(n) ==
    IF n < 10 THEN <<DigitChar(n)>>
    ELSE NatStr(n \div 10) \o <<DigitChar(n % 10)>>

\* str(n) for an int
IntStr(n) == IF n < 0 THEN <<"-">> \o NatStr(0 - n) ELSE NatStr(n)

\* repr(v) of a decoded JSON value, as str() of a dict or list shows its
\* members (the strings of this model have no quote or backslash).
RECURSIVE Repr(_)
RECURSIVE ReprMembers(_, _)
ReprMember(m) ==
    IF m.k = <<>> THEN Repr(m.v)
    ELSE <<"'">> \o m.k \o <<"'", ":", " ">> \o Repr(m.v)

ReprMembers(members, i) ==
    IF i > Len(members) THEN <<>>
    ELSE (IF i > 1 THEN <<",", " ">> ELSE <<>>)
         \o ReprMember(members[i]) \o ReprMembers(members, i + 1)

Repr(v) ==
    CASE v.t = "null" -> <<"N", "o", "n", "e">>
      [] v.t = "num" -> IntStr(v.n)
      [] v.t = "str" -> <<"'">> \o v.s \o <<"'">>
      [] v.t = "obj" -> <<"{">> \o ReprMembers(v.c, 1) \o <<"}">>
      [] OTHER -> <<"[">> \o ReprMembers(v.c, 1) \o <<"]">>

\* actual_str = str(actual) if actual is not None else ""
ActualStr(v) ==
    IF v.t = "null" THEN <<>>
    ELSE IF v.t = "str" THEN v.s
    ELSE Repr(v)

StatusPath == <<"s", "t", "a", "t", "u", "s">>
BodyPath == <<"b", "o", "d", "y">>

\* path.startswith("body.")
StartsWithBodyDot(path) == Len(path) >= 5 /\ SubSeq(path, 1, 5) = BodyPrefix

\* The actual value of evaluate_assert: [err, v], v a tree
ResolveActual(h, path, status, body) ==
    IF path = StatusPath THEN [err |-> FALSE, v |-> Num(status)]
    ELSE IF StartsWithBodyDot(path) THEN extract_value(h, body, path)
    ELSE IF path = BodyPath THEN [err |-> FALSE, v |-> Deref(h, body)]
    ELSE extract_value(h, body, path)

AssertPassed == <<"A", "S", "S", "E", "R", "T", " ", "P", "A", "S", "S", "E",
                  "D", ":", " ">>
AssertFailed == <<"A", "S", "S", "E", "R", "T", " ", "F", "A", "I", "L", "E",
                  "D", ":", " ">>
ActualOpen == <<" ", "(", "a", "c", "t", "u", "a", "l", ":", " ">>

\* The tuple evaluate_assert returns for a comparison that passed or not.
Verdict(e, passed, actual_str) ==
    [err |-> FALSE,
     passed |-> passed,
     actual |-> actual_str,
     message |-> IF passed THEN AssertPassed \o e
                 ELSE AssertFailed \o e \o ActualOpen \o actual_str
                      \o <<")">>]

\* passed = actual_str == expected, or != for the other operator
Compare(e, p, actual_str) ==
    Verdict(e,
            IF p.op = Equals THEN actual_str = p.expected
            ELSE actual_str # p.expected,
            actual_str)

\* evaluate_assert after parse_assert returned p and actual was resolved to a
Compared(e, p, a) ==
    IF a.err THEN [NoOutcome EXCEPT !.err = TRUE]
    ELSE Compare(e, p, ActualStr(a.v))

\* evaluate_assert after parse_assert returned p
Evaluated(h, e, p, status, body) ==
    IF p.err THEN [NoOutcome EXCEPT !.err = TRUE]
    ELSE Compared(e, p, ResolveActual(h, p.path, status, body))

\* evaluate_assert(expr, result): [err, passed, actual, message]
evaluate_assert(h, e, status, body) ==
    Evaluated(h, e, parse_assert(e), status, body)

\* {"a": "1", "s": "", "d": null, "body": {"a": 1}}
DocStrings == Obj(<<KV(Ka, Str(<<"1">>)), KV(<<"s">>, Str(<<>>)),
                    KV(Kd, Null), KV(BodyPath, Obj(<<KV(Ka, Num(1))>>))>>)
\* "ok"
DocText == Str(<<"o", "k">>)

AssertBodies == {DocNested, DocItems, DocStrings, DocText, Null}

StatusCodes == {200, 404}

\* The paths of the expressions: "status", "body", "body.a", "a", "a.b",
\* "m", "d", "s", "body.s", " a ", "a[].x", "a[-:]"
AssertPaths == {StatusPath, BodyPath, SpecBodyA, SpecA, SpecAB, SpecMissing,
                SpecD, <<"s">>, BodyPrefix \o <<"s">>, <<" ", "a", " ">>,
                SpecIterX, SpecBadSlice}

\* What stands between the path and the expected text: "=", "!=", " = ",
\* or nothing.
AssertDelimiters == {Equals, NotEquals, <<" ", "=", " ">>, <<>>}

\* The expected texts: "", "1", "200", "2", "x=1", "y!=2", "{'b': 1, 'c': 2}"
AssertExpected == {<<>>, <<"1">>, <<"2", "0", "0">>, <<"2">>,
                   <<"x", "=", "1">>, <<"y", "!", "=", "2">>,
                   Repr(Obj(<<KV(Kb, Num(1)), KV(Kc, Num(2))>>))}

AssertExprs == {p \o d \o x : p \in AssertPaths, d \in AssertDelimiters,
                              x \in AssertExpected}

AssertInit ==
    /\ expr \in AssertExprs
    /\ status_code \in StatusCodes
    /\ doc \in AssertBodies
    /\ heap = Alloc(<<>>, doc).h
    /\ data = Alloc(<<>>, doc).v
    /\ parsed = NoParse
    /\ outcome = NoOutcome
    /\ pc = "assert"
    /\ field_specs = <<>>
    /\ cleaned = <<>>
    /\ result = Null
    /\ ret = Null
    /\ ext = NoExt
    /\ ci_key = <<>>
    /\ actual = NoMember
    /\ DiffIdle /\ DepsIdle /\ RunIdle /\ DirIdle

\* path, op, expected = parse_assert(expr)
ParseAssert ==
    /\ pc = "assert"
    /\ parsed' = parse_assert(expr)
    /\ pc' = IF parse_assert(expr).err THEN "invalid" ELSE "parsed"
    /\ UNCHANGED <<filterVars, expr, status_code, outcome, diffVars, depVars, runVars, dirVars>>

\* The rest of evaluate_assert: resolve the actual value and compare.
EvaluateAssert ==
    /\ pc = "parsed"
    /\ outcome' = Evaluated(heap, expr, parsed, status_code, data)
    /\ pc' = IF Evaluated(heap, expr, parsed, status_code, data).err
             THEN "raised" ELSE "asserted"
    /\ UNCHANGED <<filterVars, expr, status_code, parsed, diffVars, depVars, runVars, dirVars>>

AssertNext == ParseAssert \/ EvaluateAssert

AssertSpec == AssertInit /\ [][AssertNext]_vars

(***************************************************************************)
(* Snapshots: diff_snapshot (src/reqcap/core.py).  Bodies are trees: the   *)
(* differ reads its arguments and writes only the list of lines.           *)
(***************************************************************************)

\* A decoded JSON true / false: Python's True / False, which are the ints
\* 1 and 0 for ==.
Bool(b) == [t |-> "bool", n |-> IF b THEN 1 ELSE 0, s |-> <<>>, c |-> <<>>]

IsNumber(v) == v.t \in {"num", "bool"}

\* Python's == on decoded JSON values: dicts whatever the order of their
\* keys, lists element by element, bool and int by their value.
RECURSIVE PyEq(_, _)
PyEq(x, y) ==
    IF IsNumber(x) /\ IsNumber(y) THEN x.n = y.n
    ELSE IF x.t # y.t THEN FALSE
    ELSE IF x.t = "obj"
    THEN /\ Len(x.c) = Len(y.c)
         /\ \A i \in 1..Len(x.c) : \E j \in 1..Len(y.c) :
                x.c[i].k = y.c[j].k /\ PyEq(x.c[i].v, y.c[j].v)
    ELSE IF x.t = "arr"
    THEN /\ Len(x.c) = Len(y.c)
         /\ \A i \in 1..Len(x.c) : PyEq(x.c[i].v, y.c[i].v)
    ELSE x = y

\* json.dumps(value) with the default separators
RECURSIVE JsonDumps(_)
RECURSIVE DumpMembers(_, _)
DumpMember(m) ==
    IF m.k = <<>> THEN JsonDumps(m.v)
    ELSE <<"\"">> \o m.k \o <<"\"", ":", " ">> \o JsonDumps(m.v)

DumpMembers(members, i) ==
    IF i > Len(members) THEN <<>>
    ELSE (IF i > 1 THEN <<",", " ">> ELSE <<>>)
         \o DumpMember(members[i]) \o DumpMembers(members, i + 1)

JsonDumps(v) ==
    CASE v.t = "null" -> <<"n", "u", "l", "l">>
      [] v.t = "bool" -> (IF v.n = 1 THEN <<"t", "r", "u", "e">>
                          ELSE <<"f", "a", "l", "s", "e">>)
      [] v.t = "num" -> IntStr(v.n)
      [] v.t = "str" -> <<"\"">> \o v.s \o <<"\"">>
      [] v.t = "obj" -> <<"{">> \o DumpMembers(v.c, 1) \o <<"}">>
      [] OTHER -> <<"[">> \o DumpMembers(v.c, 1) \o <<"]">>

\* str(value) of a value that is neither a dict nor a list
ScalarStr(v) ==
    CASE v.t = "null" -> <<"N", "o", "n", "e">>
      [] v.t = "bool" -> (IF v.n = 1 THEN <<"T", "r", "u", "e">>
                          ELSE <<"F", "a", "l", "s", "e">>)
      [] v.t = "num" -> IntStr(v.n)
      [] OTHER -> v.s

\* if len(s) > 80: return s[:77] + "..."
Truncated(s) ==
    IF Len(s) > 80 THEN SubSeq(s, 1, 77) \o <<".", ".", ".">> ELSE s

\* _summarize(value)
summarize(v) ==
    Truncated(IF v.t \in {"obj", "arr"} THEN JsonDumps(v) ELSE ScalarStr(v))

Absent == <<"(", "a", "b", "s", "e", "n", "t", ")">>

\* f"{path}: {old} → {new}"
DiffLine(path, old, new) ==
    path \o <<":", " ">> \o old \o <<" ", "→", " ">> \o new

\* The characters of the keys of this model, by code point.
CodePoints == <<"B", "a", "b", "c", "d", "x", "y">>

CharRank(ch) == CHOOSE i \in 1..Len(CodePoints) : CodePoints[i] = ch

\* k1 < k2 for two strings
RECURSIVE KeyLess(_, _)
KeyLess(k1, k2) ==
    IF k2 = <<>> THEN FALSE
    ELSE IF k1 = <<>> THEN TRUE
    ELSE IF Head(k1) = Head(k2) THEN KeyLess(Tail(k1), Tail(k2))
    ELSE CharRank(Head(k1)) < CharRank(Head(k2))

MinKey(S) == CHOOSE k \in S : \A j \in S \ {k} : KeyLess(k, j)

\* sorted(set(...))
RECURSIVE Sorted(_)
SortedFrom(S, k) == <<k>> \o Sorted(S \ {k})

Sorted(S) == IF S = {} THEN <<>> ELSE SortedFrom(S, MinKey(S))

\* dict.keys()
KeysOf(d) == {d.c[i].k : i \in 1..Len(d.c)}

\* d[key]
ItemOf(d, key) == d.c[CHOOSE i \in 1..Len(d.c) : d.c[i].k = key].v

RECURSIVE diff_dicts(_, _, _)

\* The last two branches of the loop of _diff_dicts: key is in both dicts.
DiffValues(path, o, n) ==
    IF o.t = "obj" /\ n.t = "obj" THEN diff_dicts(path, o, n)
    ELSE IF ~PyEq(o, n) THEN <<DiffLine(path, summarize(o), summarize(n))>>
    ELSE <<>>

\* One iteration of the loop of _diff_dicts: the lines appended for key.
DiffKey(path, old, new, key) ==
    IF key \notin KeysOf(old)
    THEN <<DiffLine(path, Absent, summarize(ItemOf(new, key)))>>
    ELSE IF key \notin KeysOf(new)
    THEN <<DiffLine(path, summarize(ItemOf(old, key)), Absent)>>
    ELSE DiffValues(path, ItemOf(old, key), ItemOf(new, key))

RECURSIVE DiffKeys(_, _, _, _)
DiffKeys(prefix, old, new, all_keys) ==
    IF all_keys = <<>> THEN <<>>
    ELSE DiffKey(prefix \o <<".">> \o Head(all_keys), old, new, Head(all_keys))
         \o DiffKeys(prefix, old, new, Tail(all_keys))

\* _diff_dicts(prefix, old, new, diffs): the lines it appends to diffs
diff_dicts(prefix, old, new) ==
    DiffKeys(prefix, old, new, Sorted(KeysOf(old) \cup KeysOf(new)))

StatusCodeLabel == <<"s", "t", "a", "t", "u", "s", "_", "c", "o", "d", "e">>

\* The status part of diff_snapshot
DiffStatus(snap_status, curr_status) ==
    IF snap_status # curr_status
    THEN <<DiffLine(StatusCodeLabel, IntStr(snap_status), IntStr(curr_status))>>
    ELSE <<>>

\* The body part of diff_snapshot
DiffBody(snap_body, curr_body) ==
    IF snap_body.t = "obj" /\ curr_body.t = "obj"
    THEN diff_dicts(BodyPath, snap_body, curr_body)
    ELSE IF ~PyEq(snap_body, curr_body)
    THEN <<DiffLine(BodyPath, summarize(snap_body), summarize(curr_body))>>
    ELSE <<>>

\* The headers are compared too.
DiffWithHeaders(snap, curr) ==
    DiffStatus(snap.status_code, curr.status_code)
    \o (IF snap.headers # curr.headers
        THEN <<DiffLine(<<"h", "e", "a", "d", "e", "r", "s">>, <<>>, <<>>)>>
        ELSE <<>>)
    \o DiffBody(snap.body, curr.body)

\* diff_snapshot(snapshot, result)
diff_snapshot(snap, curr) ==
    DiffStatus(snap.status_code, curr.status_code)
    \o DiffBody(snap.body, curr.body)

\* {"a": 1}
BodyA1 == Obj(<<KV(Ka, Num(1))>>)
\* {"b": 2, "a": 1}
BodyB2A1 == Obj(<<KV(Kb, Num(2)), KV(Ka, Num(1))>>)
\* {"a": 1, "b": 2}
BodyA1B2 == Obj(<<KV(Ka, Num(1)), KV(Kb, Num(2))>>)
\* {"a": true}
BodyATrue == Obj(<<KV(Ka, Bool(TRUE))>>)
\* {"a": {"x": 1}, "b": 2}
BodyNested == Obj(<<KV(Ka, Obj(<<KV(Kx, Num(1))>>)), KV(Kb, Num(2))>>)
\* {"a": {"x": 2, "y": [1]}, "B": 2}
BodyNestedChanged ==
    Obj(<<KV(Ka, Obj(<<KV(Kx, Num(2)), KV(Ky, Arr(<<Num(1)>>))>>)),
          KV(<<"B">>, Num(2))>>)
\* {"a": [1, 2], "c": null}
BodyList == Obj(<<KV(Ka, Arr(<<Num(1), Num(2)>>)), KV(Kc, Null)>>)
\* {"a": "zz...z"} with 81 letters z
BodyLong == Obj(<<KV(Ka, Str([i \in 1..81 |-> "z"]))>>)
\* [1]
BodyArray == Arr(<<Num(1)>>)

DiffBodies == {BodyA1, BodyB2A1, BodyA1B2, BodyATrue, BodyNested,
               BodyNestedChanged, BodyList, BodyLong, BodyArray, DocText, Null}

DiffInit ==
    /\ snapshot \in [status_code : StatusCodes, body : DiffBodies]
    /\ response \in [status_code : StatusCodes, body : DiffBodies]
    /\ diffs = <<>>
    /\ pc = "diff"
    /\ ext = NoExt
    /\ FilterIdle /\ AssertIdle /\ DepsIdle /\ RunIdle /\ DirIdle

\* diff_snapshot up to the comparison of the bodies
CompareStatus ==
    /\ pc = "diff"
    /\ diffs' = DiffStatus(snapshot.status_code, response.status_code)
    /\ pc' = "body"
    /\ UNCHANGED <<filterVars, assertVars, snapshot, response, depVars, runVars, dirVars>>

\* The comparison of the bodies, and return diffs
CompareBody ==
    /\ pc = "body"
    /\ diffs' = diffs \o DiffBody(snapshot.body, response.body)
    /\ pc' = "diffed"
    /\ UNCHANGED <<filterVars, assertVars, snapshot, response, depVars, runVars, dirVars>>

DiffNext == CompareStatus \/ CompareBody

DiffSpec == DiffInit /\ [][DiffNext]_vars

\* The snapshots as save_snapshot writes them, with headers and the time of
\* saving, and the results as execute_request returns them, with headers and
\* the time taken.
HeaderDicts == {<<>>, <<"h">> :> <<"1">>, <<"h">> :> <<"2">>}
FullSnapshots ==
    [status_code : StatusCodes, headers : HeaderDicts,
     body : {BodyA1, BodyA1B2, Null}, saved_at : {1, 2}]
FullResults ==
    [status_code : StatusCodes, headers : HeaderDicts,
     body : {BodyA1, BodyA1B2, Null}, elapsed_ms : {1, 2}]

FullDiffInit ==
    /\ snapshot \in FullSnapshots
    /\ response \in FullResults
    /\ diffs = <<>>
    /\ pc = "diff_fn"
    /\ ext = NoExt
    /\ FilterIdle /\ AssertIdle /\ DepsIdle /\ RunIdle /\ DirIdle

\* diffs = diff_fn(snapshot, result)
DiffSnapshot ==
    /\ pc = "diff_fn"
    /\ diffs' = diff_snapshot(snapshot, response)
    /\ pc' = "diffed"
    /\ UNCHANGED <<filterVars, assertVars, snapshot, response, depVars,
                   runVars, dirVars>>

FullDiffNext == DiffSnapshot

FullDiffSpec == FullDiffInit /\ [][FullDiffNext]_vars

(***************************************************************************)
(* Template dependencies: _resolve_and_execute_deps, called by             *)
(* _cmd_template (src/reqcap/cli.py).  A template file is known by its     *)
(* lookup name (the stem of its file); its "name" field is the stem unless *)
(* the file sets one (_read_template_file, src/reqcap/core.py).            *)
(***************************************************************************)

\* The deepest nesting of _resolve_and_execute_deps calls before Python
\* raises RecursionError.
MaxDepth == 4

\* The most entries in one template's depends list.
MaxDeps == 2

\* The template files a.yaml, b.yaml and c.yaml; no file m.yaml exists.
TemplateC == <<"c">>
ConfiguredStems == {Ka, Kb}
DependsNames == {Ka, Kb, TemplateC, <<"m">>}

\* The "name" field of the file with the stem given: the stem by default,
\* or what the file sets.
NamesOf(stem) == {stem, <<"x">>, TemplateC}

TemplatesOf(stem) ==
    [name : NamesOf(stem), depends : SeqsUpTo(DependsNames, MaxDeps)]

\* c.yaml depends on nothing and leaves its name to the default.
LeafTemplate == [name |-> TemplateC, depends |-> <<>>]

TemplateFiles ==
    {[stem \in ConfiguredStems \cup {TemplateC} |->
         IF stem = Ka THEN ta ELSE IF stem = Kb THEN tb ELSE LeafTemplate] :
       ta \in TemplatesOf(Ka), tb \in TemplatesOf(Kb)}

\* The locals of one call of _resolve_and_execute_deps on the template with
\* the stem given: visited and chain as they are after
\* visited.add(template_name) and chain.append(template_name).
NewFrame(files, stem, visited, chain) ==
    [stem |-> stem,
     name |-> files[stem].name,
     depends |-> files[stem].depends,
     i |-> 1,
     ph |-> "check",
     visited |-> visited \cup {files[stem].name},
     chain |-> Append(chain, files[stem].name)]

Top(fs) == fs[Len(fs)]

\* The frames with the innermost call's locals replaced
WithTop(fs, f) == [fs EXCEPT ![Len(fs)] = f]

Circular == <<"C", "i", "r", "c", "u", "l", "a", "r", " ", "d", "e", "p",
              "e", "n", "d", "e", "n", "c", "y", " ", "d", "e", "t", "e",
              "c", "t", "e", "d">>
TemplateNotFound == <<"n", "o", "t", " ", "f", "o", "u", "n", "d">>
DependencyFailed == <<"f", "a", "i", "l", "e", "d">>
RecursionError == <<"R", "e", "c", "u", "r", "s", "i", "o", "n", "E", "r",
                    "r", "o", "r">>

\* The variable names t and u, the -v options (none, or t=9) and the exports
\* sections (none, {t: d}, {t: a.b, u: d}).
Kt == <<"t">>
Ku == <<"u">>
CliVars == {<<>>, Kt :> <<"9">>}
ExportsT == Kt :> SpecD
ExportsTU == (Kt :> SpecAB) @@ (Ku :> SpecD)
ExportsSections == {<<>>, ExportsT, ExportsTU}

\* The bodies the dependencies answer with: none; d = 3 and a.b = 1;
\* d = null and a a list.
ChainBodies == {Null, DocNested, DocItems}

DepsInit ==
    /\ templates \in TemplateFiles
    /\ requested \in ConfiguredStems
    /\ frames = <<>>
    /\ executed = <<>>
    /\ error = <<>>
    /\ cli_vars = <<>>
    /\ exports = [stem \in DOMAIN templates |-> <<>>]
    /\ variables = <<cli_vars>>
    /\ responses = <<>>
    /\ named = <<>>
    /\ pc = "run"
    /\ ext = NoExt
    /\ FilterIdle /\ AssertIdle /\ DiffIdle /\ RunIdle /\ DirIdle

\* variables = dict(variables) in the call that was entered, if one was: vs
\* with a copy of its last dict appended.
Entered(vs, fs, entered) ==
    IF Len(entered) > Len(fs) THEN Append(vs, vs[Len(vs)]) ELSE vs

\* _cmd_template calls _resolve_and_execute_deps(template, ...): it returns
\* at once for a template without depends.
ResolveDeps ==
    /\ pc = "run"
    /\ IF templates[requested].depends = <<>>
       THEN pc' = "request" /\ frames' = frames
       ELSE /\ pc' = "deps"
            /\ frames' = <<NewFrame(templates, requested, {}, <<>>)>>
    /\ variables' = Entered(variables, frames, frames')
    /\ UNCHANGED <<filterVars, ext, assertVars, diffVars, runVars, dirVars,
                   templates, requested,
                   executed, error, cli_vars, exports, responses, named>>

\* The error message without the exit: the run goes on.
ExitNever(e, dep_name) ==
    error' = e /\ named' = dep_name /\ pc' = pc /\ frames' = frames

\* sys.exit(1) after the error message e about dep_name
Exit(e, dep_name) ==
    error' = e /\ named' = dep_name /\ pc' = "exit" /\ frames' = frames

\* The dependency's own dependencies are not run.
RecurseNever(f, dep_name) ==
    /\ frames' = WithTop(frames, [f EXCEPT !.ph = "execute"])
    /\ UNCHANGED <<pc, error, named>>

\* The recursive call for dep_name, which returns at once when the
\* dependency has no depends of its own.
Recurse(f, dep_name) ==
    IF templates[dep_name].depends = <<>>
    THEN /\ frames' = WithTop(frames, [f EXCEPT !.ph = "execute"])
         /\ UNCHANGED <<pc, error, named>>
    ELSE IF Len(frames) >= MaxDepth THEN Exit(RecursionError, <<>>)
    ELSE /\ frames' = Append(frames, NewFrame(templates, dep_name, f.visited,
                                              f.chain))
         /\ UNCHANGED <<pc, error, named>>

\* The head of the loop body for dep_name: the cycle test, load_template
\* and the recursive call.
Visit(f, dep_name) ==
    IF dep_name \in f.visited THEN Exit(Circular, dep_name)
    ELSE IF dep_name \notin DOMAIN templates
    THEN Exit(TemplateNotFound, dep_name)
    ELSE Recurse(f, dep_name)

CheckDep ==
    /\ pc = "deps"
    /\ Top(frames).ph = "check"
    /\ Top(frames).i <= Len(Top(frames).depends)
    /\ Visit(Top(frames), Top(frames).depends[Top(frames).i])
    /\ variables' = Entered(variables, frames, frames')
    /\ UNCHANGED <<filterVars, ext, assertVars, diffVars, runVars, dirVars,
                   templates, requested,
                   executed, cli_vars, exports, responses>>

\* The frames after the innermost call returned: its caller goes on to
\* execute the dependency's request.
Popped(fs) ==
    IF Len(fs) = 1 THEN <<>>
    ELSE WithTop(SubSeq(fs, 1, Len(fs) - 1),
                 [fs[Len(fs) - 1] EXCEPT !.ph = "execute"])

\* variables = _resolve_and_execute_deps(...): the caller's dict is replaced
\* by the one the call returns.
ReturnedTo(vs) ==
    WithTop(SubSeq(vs, 1, Len(vs) - 1), vs[Len(vs)])

\* The for loop is over: return variables
ReturnDeps ==
    /\ pc = "deps"
    /\ Top(frames).ph = "check"
    /\ Top(frames).i > Len(Top(frames).depends)
    /\ frames' = Popped(frames)
    /\ variables' = ReturnedTo(variables)
    /\ pc' = IF Len(frames) = 1 THEN "request" ELSE "deps"
    /\ UNCHANGED <<filterVars, ext, assertVars, diffVars, runVars, dirVars,
                   templates, requested,
                   executed, error, cli_vars, exports, responses, named>>

\* cli_var_keys=set(variables.keys()) in _cmd_template
cli_var_keys == DOMAIN cli_vars

\* bool(result.body)
Truthy(v) ==
    CASE v.t = "null" -> FALSE
      [] v.t \in {"num", "bool"} -> v.n # 0
      [] v.t = "str" -> v.s # <<>>
      [] OTHER -> v.c # <<>>

\* extract_value(result.body, epath)
ExportedValue(body, epath) ==
    extract_value(Alloc(<<>>, body).h, Alloc(<<>>, body).v, epath).v

\* The names of exps that the loop over exports.items() assigns: not a -v
\* name, and the value found is not None.
Assigned(keys, exps, body) ==
    {ename \in DOMAIN exps :
        /\ ~(keys # {} /\ ename \in keys)
        /\ ExportedValue(body, exps[ename]) # Null}

\* The exports are merged over the -v options too.
MergeOverCli(vs, keys, exps, body) ==
    [ename \in DOMAIN vs \cup Assigned({}, exps, body) |->
        IF ename \in Assigned({}, exps, body)
        THEN ActualStr(ExportedValue(body, exps[ename]))
        ELSE vs[ename]]

\* The variables dict after the exports of a dependency are merged into it:
\* variables[ename] = str(value)
MergeExports(vs, keys, exps, body) ==
    IF exps = <<>> \/ ~Truthy(body) THEN vs
    ELSE [ename \in DOMAIN vs \cup Assigned(keys, exps, body) |->
             IF ename \in Assigned(keys, exps, body)
             THEN ActualStr(ExportedValue(body, exps[ename]))
             ELSE vs[ename]]

\* The bodies a dependency's request may return; the body of a dependency
\* without exports is not looked at.
BodiesFor(exps) == IF exps = <<>> THEN {Null} ELSE ChainBodies

\* The request of the dependency is built and executed; result.error ends
\* the run.
ExecuteDep ==
    /\ pc = "deps"
    /\ Top(frames).ph = "execute"
    /\ executed' = Append(executed, Top(frames).depends[Top(frames).i])
    /\ \E ok \in BOOLEAN :
          IF ok
          THEN /\ frames' = WithTop(frames, [Top(frames) EXCEPT
                                               !.i = @ + 1, !.ph = "check"])
               /\ \E body \in BodiesFor(exports[Top(frames).depends[
                                                    Top(frames).i]]) :
                     /\ responses' = Append(responses, body)
                     /\ variables' =
                            WithTop(variables,
                                    MergeExports(Top(variables), cli_var_keys,
                                                 exports[Top(frames).depends[
                                                             Top(frames).i]],
                                                 body))
               /\ UNCHANGED <<pc, error, named>>
          ELSE /\ Exit(DependencyFailed, Top(frames).depends[Top(frames).i])
               /\ responses' = Append(responses, Null)
               /\ variables' = variables
    /\ UNCHANGED <<filterVars, ext, assertVars, diffVars, runVars, dirVars,
                   templates, requested,
                   cli_vars, exports>>

\* _cmd_template executes the request of the requested template.
ExecuteRequest ==
    /\ pc = "request"
    /\ executed' = Append(executed, requested)
    /\ pc' = "done"
    /\ UNCHANGED <<filterVars, ext, assertVars, diffVars, runVars, dirVars,
                   templates, requested,
                   frames, error, cli_vars, exports, variables, responses,
                   named>>

DepsNext ==
    ResolveDeps \/ CheckDep \/ ReturnDeps \/ ExecuteDep \/ ExecuteRequest

DepsSpec == DepsInit /\ [][DepsNext]_vars

\* Template files that leave their name to the default, with exports
\* sections, run with -v options: a depends on b and c in any order and
\* number, b on c or on nothing.
ChainFiles ==
    {[stem \in ConfiguredStems \cup {TemplateC} |->
         IF stem = TemplateC THEN LeafTemplate
         ELSE [name |-> stem, depends |-> IF stem = Ka THEN da ELSE db]] :
       da \in SeqsUpTo({Kb, TemplateC}, MaxDeps), db \in {<<>>, <<TemplateC>>}}

ChainInit ==
    /\ templates \in ChainFiles
    /\ requested \in ConfiguredStems
    /\ frames = <<>>
    /\ executed = <<>>
    /\ error = <<>>
    /\ cli_vars \in CliVars
    /\ exports \in [DOMAIN templates -> ExportsSections]
    /\ exports[requested] = <<>>
    /\ variables = <<cli_vars>>
    /\ responses = <<>>
    /\ named = <<>>
    /\ pc = "run"
    /\ ext = NoExt
    /\ FilterIdle /\ AssertIdle /\ DiffIdle /\ RunIdle /\ DirIdle

ChainSpec == ChainInit /\ [][DepsNext]_vars

(***************************************************************************)
(* Resource directories: _resource_candidates, resolve_path and            *)
(* resolve_resource_dir (src/reqcap/core.py).  The file system is the set  *)
(* of the directories that exist and the content of the files that exist,  *)
(* both by absolute path.                                                  *)
(***************************************************************************)

Slash == "/"

\* The components of a path string
RECURSIVE Parts(_)
Parts(s) ==
    IF IndexOf(s, Slash, 1) = 0 THEN (IF s = <<>> THEN <<>> ELSE <<s>>)
    ELSE (IF IndexOf(s, Slash, 1) = 1 THEN <<>>
          ELSE <<SubSeq(s, 1, IndexOf(s, Slash, 1) - 1)>>)
         \o Parts(SubSeq(s, IndexOf(s, Slash, 1) + 1, Len(s)))

\* Path(s)
Path(s) == [abs |-> s # <<>> /\ s[1] = Slash, parts |-> Parts(s)]

\* base / p
Join(base, p) ==
    IF p.abs THEN p ELSE [abs |-> base.abs, parts |-> base.parts \o p.parts]

\* Path.cwd() is /w, GLOBAL_DIR is /h/.reqcap
Cwd == Path(<<"/", "w">>)
GLOBAL_DIR == Path(<<"/", "h", "/", ".", "r", "e", "q", "c", "a", "p">>)

\* p.resolve()
Resolve(p) == Join(Cwd, p)

\* p.exists()
Exists(files, p) ==
    Resolve(p).parts \in files.dirs \cup DOMAIN files.files

Snapshots == <<"s", "n", "a", "p", "s", "h", "o", "t", "s">>

\* The candidate for the config value, if there is one
ConfigCandidates(cfg) ==
    IF cfg.value = <<>> THEN <<>>
    ELSE IF ~Path(cfg.value).abs /\ cfg.dir # NoPath
    THEN <<Join(cfg.dir, Path(cfg.value))>>
    ELSE <<Path(cfg.value)>>

\* The override is tried first and the other candidates after it.
CandidatesFallThrough(resource_name, override, cfg) ==
    (IF override # <<>> THEN <<Join(Cwd, Path(override))>> ELSE <<>>)
    \o ConfigCandidates(cfg)
    \o <<Path(resource_name), Join(GLOBAL_DIR, Path(resource_name))>>

\* _resource_candidates(resource_name, cli_override, config)
resource_candidates(resource_name, override, cfg) ==
    IF override # <<>>
    THEN <<IF Path(override).abs THEN Path(override)
           ELSE Join(Cwd, Path(override))>>
    ELSE ConfigCandidates(cfg)
         \o <<Path(resource_name), Join(GLOBAL_DIR, Path(resource_name))>>

\* resolve_path(candidates, default)
RECURSIVE resolve_path(_, _, _)
resolve_path(files, candidates, dflt) ==
    IF candidates = <<>> THEN dflt
    ELSE IF Exists(files, Head(candidates)) THEN Resolve(Head(candidates))
    ELSE resolve_path(files, Tail(candidates), dflt)

\* resolve_resource_dir(resource_name, cli_override, config, default)
resolve_resource_dir(files, resource_name, override, cfg, dflt) ==
    resolve_path(files, resource_candidates(resource_name, override, cfg),
                 dflt)

\* The --snapshots-dir values: not given, "s", "/o", "snapshots".
Overrides == {<<>>, <<"s">>, <<"/", "o">>, Snapshots}

\* The configurations: no snapshots_dir, or "s" or "/o" in a config file
\* of /w or /p.
Configs ==
    {[value |-> <<>>, dir |-> d] : d \in {NoPath, Cwd, Path(<<"/", "p">>)}}
    \cup {[value |-> v, dir |-> d] : v \in {<<"s">>, <<"/", "o">>},
                                     d \in {Cwd, Path(<<"/", "p">>)}}

\* The paths the candidates can be: /w/s, /p/s, /o, /w/snapshots,
\* /h/.reqcap/snapshots.
CandidatePaths ==
    {Parts(<<"/", "w", "/", "s">>), Parts(<<"/", "p", "/", "s">>),
     Parts(<<"/", "o">>), Join(Cwd, Path(Snapshots)).parts,
     Join(GLOBAL_DIR, Path(Snapshots)).parts}

\* A file that is not a snapshot
PlainFile == [text |-> <<"x">>]

\* Every candidate path is absent, a directory or a plain file.
FileSystems ==
    {[dirs |-> ds, files |-> [f \in fl |-> PlainFile]] :
        ds \in SUBSET CandidatePaths,
        fl \in SUBSET CandidatePaths}

ResolveInit ==
    /\ cli_override \in Overrides
    /\ config \in Configs
    /\ disk \in {f \in FileSystems : f.dirs \cap DOMAIN f.files = {}}
    /\ default \in {NoPath, Path(Snapshots)}
    /\ resolved = NoPath
    /\ pc = "resolve"
    /\ ext = NoExt
    /\ FilterIdle /\ AssertIdle /\ DiffIdle /\ DepsIdle /\ RunIdle

ResolveResourceDir ==
    /\ pc = "resolve"
    /\ resolved' = resolve_resource_dir(disk, Snapshots, cli_override, config,
                                        default)
    /\ pc' = "resolved"
    /\ UNCHANGED <<filterVars, ext, assertVars, diffVars, depVars, runVars,
                   cli_override, config, disk, default>>

ResolveNext == ResolveResourceDir

ResolveSpec == ResolveInit /\ [][ResolveNext]_vars

(***************************************************************************)
(* One run of the command line from the moment execute_request has         *)
(* returned: _cmd_direct, _cmd_template, _cmd_import_curl and _cmd_replay  *)
(* with _handle_asserts (src/reqcap/cli.py).                               *)
(***************************************************************************)

\* The most --assert options on one command line.
\* str(path)
RECURSIVE JoinParts(_)
JoinParts(parts) ==
    IF parts = <<>> THEN <<>>
    ELSE IF Len(parts) = 1 THEN parts[1]
    ELSE parts[1] \o <<Slash>> \o JoinParts(Tail(parts))

PathStr(p) == (IF p.abs THEN <<Slash>> ELSE <<>>) \o JoinParts(p.parts)

\* snapshots_dir / f"{name}.json"
JsonExt == <<".", "j", "s", "o", "n">>
SnapshotPath(snapshots_dir, name) ==
    [abs |-> snapshots_dir.abs,
     parts |-> Append(snapshots_dir.parts, name \o JsonExt)]

\* The data save_snapshot writes; result.headers of no header is {}.  The
\* bodies are trees of JSON values with text keys, which json.dump and
\* json.load give back as they were.
SnapshotData(res, now) ==
    [status_code |-> res.status_code, headers |-> res.headers,
     body |-> res.body, saved_at |-> now]

\* save_snapshot(name, result, snapshots_dir) at the time now: [err, files,
\* path], err when mkdir finds a file at snapshots_dir or open a directory
\* at the path.
save_snapshot(files, name, res, snapshots_dir, now) ==
    IF \/ Resolve(snapshots_dir).parts \in DOMAIN files.files
       \/ Resolve(SnapshotPath(snapshots_dir, name)).parts \in files.dirs
    THEN [err |-> TRUE, files |-> files, path |-> NoPath]
    ELSE [err |-> FALSE,
          files |-> [dirs |-> files.dirs \cup {Resolve(snapshots_dir).parts},
                     files |-> (Resolve(SnapshotPath(snapshots_dir, name)).parts
                                   :> SnapshotData(res, now)) @@ files.files],
          path |-> SnapshotPath(snapshots_dir, name)]

NoSnapshot == [found |-> FALSE, snap |-> SnapshotData([status_code |-> 0,
                                                       headers |-> <<>>,
                                                       body |-> Null], 0)]

\* json.load(f) of the file at path, None when there is none or it does not
\* hold JSON
LoadFile(files, path) ==
    IF /\ Resolve(path).parts \in DOMAIN files.files
       /\ "status_code" \in DOMAIN files.files[Resolve(path).parts]
    THEN [found |-> TRUE, snap |-> files.files[Resolve(path).parts]]
    ELSE NoSnapshot

LoadIn(files, sdir, name) ==
    IF sdir = NoPath THEN NoSnapshot
    ELSE LoadFile(files, SnapshotPath(sdir, name))

\* load_snapshot(name, config, snapshots_dir_override): [found, snap]
load_snapshot(files, name, cfg, override) ==
    LoadIn(files, resolve_resource_dir(files, Snapshots, override, cfg, NoPath),
           name)

\* _shell_quote(s)
SafeChars ==
    {"0", "1", "2", "3", "4", "5", "6", "7", "8", "9",
     "a", "b", "c", "d", "e", "f", "g", "h", "i", "j", "k", "l", "m",
     "n", "o", "p", "q", "r", "s", "t", "u", "v", "w", "x", "y", "z",
     "A", "B", "C", "D", "E", "F", "G", "H", "I", "J", "K", "L", "M",
     "N", "O", "P", "Q", "R", "S", "T", "U", "V", "W", "X", "Y", "Z",
     "-", "_", "=", ".", "/", ":", "@"}

RECURSIVE EscapeQuotes(_)
EscapeQuotes(t) ==
    IF t = <<>> THEN <<>>
    ELSE (IF Head(t) = "'" THEN <<"'", "\\", "'", "'">> ELSE <<Head(t)>>)
         \o EscapeQuotes(Tail(t))

shell_quote(t) ==
    IF t = <<>> THEN <<"'", "'">>
    ELSE IF \A i \in 1..Len(t) : t[i] \in SafeChars THEN t
    ELSE <<"'">> \o EscapeQuotes(t) \o <<"'">>

\* f"export reqcap_{name}={_shell_quote(str(value))}"
ExportPrefix == <<"e", "x", "p", "o", "r", "t", " ", "r", "e", "q", "c", "a",
                  "p", "_">>
ExportLine(name, value) ==
    ExportPrefix \o name \o Equals \o shell_quote(ActualStr(value))

\* name and path of an --export option
ExportItem(spec) ==
    IF Find(spec, Equals, 1) > 0
    THEN [ename |-> SubSeq(spec, 1, Find(spec, Equals, 1) - 1),
          epath |-> SubSeq(spec, Find(spec, Equals, 1) + 1, Len(spec))]
    ELSE [ename |-> spec, epath |-> BodyPrefix \o spec]

ExportItems(specs) == [i \in 1..Len(specs) |-> ExportItem(specs[i])]

\* extract_value(result.body, epath): [err, v]
ExtractFrom(body, epath) ==
    extract_value(Alloc(<<>>, body).h, Alloc(<<>>, body).v, epath)

\* One round of an export loop with r the extracted value, then the rounds
\* after it: an exception ends the loop
ExportRound(r, ename, rest) ==
    IF r.err THEN [err |-> TRUE, lines |-> <<>>]
    ELSE [err |-> rest.err,
          lines |-> (IF r.v # Null THEN <<ExportLine(ename, r.v)>> ELSE <<>>)
                    \o rest.lines]

\* The lines an export loop over items prints: [err, lines]
RECURSIVE ExportLines(_, _)
ExportLines(items, body) ==
    IF items = <<>> THEN [err |-> FALSE, lines |-> <<>>]
    ELSE IF ExtractFrom(body, Head(items).epath).err
    THEN [err |-> TRUE, lines |-> <<>>]
    ELSE ExportRound(ExtractFrom(body, Head(items).epath), Head(items).ename,
                     ExportLines(Tail(items), body))

\* if not export_specs or not result.body: return
GuardedExportLines(items, body) ==
    IF items = <<>> \/ ~Truthy(body) THEN [err |-> FALSE, lines |-> <<>>]
    ELSE ExportLines(items, body)

MaxAsserts == 2

Modes == {"direct", "template", "curl", "replay"}

\* "status=200", "d=4", "a.b!=1", "a[-:]=1" and "m"; the response is 200
\* with the body {"a": {"b": 1, "c": 2}, "d": 3}.
AssertStatusOk == StatusPath \o Equals \o <<"2", "0", "0">>
AssertDIs4 == SpecD \o Equals \o <<"4">>
AssertABNot1 == SpecAB \o NotEquals \o <<"1">>
AssertBadSlice == SpecBadSlice \o Equals \o <<"1">>
RunAsserts == {AssertStatusOk, AssertDIs4, AssertABNot1, AssertBadSlice,
               SpecMissing}

Event(op, arg) == [op |-> op, arg |-> arg]

\* The --export options: none; "d"; "x=a.b" and "m"
RunExports == {<<>>, <<SpecD>>, <<Kx \o Equals \o SpecAB, SpecMissing>>}

\* --snapshot and --diff: not given, or the name "n"
Kn == <<"n">>
SnapshotNames == {<<>>, Kn}

\* The template t: with or without the export t: d, without a snapshot
\* section or with one that is enabled, unnamed or named "n".  The exports
\* are the items of the dict, in its order.
RunTemplates ==
    [name : {Kt},
     exports : {<<>>, <<[ename |-> Kt, epath |-> SpecD]>>},
     snapshot : {[enabled |-> FALSE, name |-> <<>>],
                 [enabled |-> TRUE, name |-> <<>>],
                 [enabled |-> TRUE, name |-> Kn]}]

\* The response of the run
Kh == <<"h">>
RunResponse == [status_code |-> 200, headers |-> Kh :> <<"1">>,
                body |-> DocNested]

\* The file systems of a run: empty; ./snapshots/n.json saved from the same
\* response; ./snapshots/n.json saved from a 404 response.
SavedIn(dir, name, res) ==
    [dirs |-> {dir.parts},
     files |-> SnapshotPath(dir, name).parts :> SnapshotData(res, 0)]

RunDisks ==
    {[dirs |-> {}, files |-> <<>>],
     SavedIn(Join(Cwd, Path(Snapshots)), Kn, RunResponse),
     SavedIn(Join(Cwd, Path(Snapshots)), Kn,
             [RunResponse EXCEPT !.status_code = 404])}

RunInit ==
    /\ mode \in Modes
    /\ result_error \in BOOLEAN
    /\ assert_exprs \in SeqsUpTo(RunAsserts, MaxAsserts)
    /\ evaluations = 0
    /\ effects = <<>>
    /\ export \in RunExports
    /\ template \in (IF mode = "template" THEN RunTemplates ELSE {NoTemplate})
    /\ snapshot_ctx \in [snapshot_name : SnapshotNames,
                          diff_name : SnapshotNames]
    /\ runs = 1
    /\ last_saved = <<>>
    /\ response = RunResponse
    /\ snapshot = NoSnapshot.snap
    /\ diffs = <<>>
    /\ cli_override = <<>>
    /\ config = [value |-> <<>>, dir |-> NoPath]
    /\ disk \in RunDisks
    /\ default = NoPath
    /\ resolved = NoPath
    /\ status_code = 200
    /\ doc = DocNested
    /\ heap = Alloc(<<>>, doc).h
    /\ data = Alloc(<<>>, doc).v
    /\ expr = <<>>
    /\ parsed = NoParse
    /\ outcome = NoOutcome
    /\ pc = "result"
    /\ field_specs = <<>>
    /\ cleaned = <<>>
    /\ result = Null
    /\ ret = Null
    /\ ext = NoExt
    /\ ci_key = <<>>
    /\ actual = NoMember
    /\ DepsIdle

\* The error is printed and the run goes on with the output.
CheckErrorGoesOn ==
    /\ pc = "result"
    /\ effects' = IF result_error THEN Append(effects, Event("error", <<>>))
                  ELSE effects
    /\ pc' = "output"
    /\ UNCHANGED <<filterVars, assertVars, diffVars, depVars, dirVars, runArgs,
                   evaluations, last_saved>>

\* if result.error: click.echo(f"ERROR: {result.error}", err=True);
\* sys.exit(1)
CheckError ==
    /\ pc = "result"
    /\ IF result_error
       THEN /\ effects' = Append(effects, Event("error", <<>>))
            /\ pc' = "exit"
       ELSE /\ effects' = effects
            /\ pc' = "output"
    /\ UNCHANGED <<filterVars, assertVars, diffVars, depVars, dirVars, runArgs,
                   evaluations, last_saved>>

\* click.echo(format_output(result, ...)); _cmd_replay goes on with
\* _handle_asserts, the others with _save_to_history.
FormatOutput ==
    /\ pc = "output"
    /\ effects' = Append(effects, Event("output", <<>>))
    /\ pc' = IF mode = "replay" THEN "asserts" ELSE "history"
    /\ UNCHANGED <<filterVars, assertVars, diffVars, depVars, dirVars, runArgs,
                   evaluations, last_saved>>

\* _save_to_history(method, url, ...)
SaveToHistory ==
    /\ pc = "history"
    /\ effects' = Append(effects, Event("history", <<>>))
    /\ pc' = "asserts"
    /\ UNCHANGED <<filterVars, assertVars, diffVars, depVars, dirVars, runArgs,
                   evaluations, last_saved>>

\* A failed assertion prints its message and the loop goes on.
HandledGoesOn(o) ==
    IF o.err THEN pc' = "traceback" /\ effects' = effects
    ELSE IF ~o.passed
    THEN pc' = "asserts" /\ effects' = Append(effects, Event("assert", o.message))
    ELSE pc' = "asserts" /\ effects' = effects

\* What the loop body of _handle_asserts does with the tuple evaluate_fn
\* returned, o: an exception leaves the run, a failure prints the message
\* and exits.
Handled(o) ==
    IF o.err THEN pc' = "traceback" /\ effects' = effects
    ELSE IF ~o.passed
    THEN pc' = "exit" /\ effects' = Append(effects, Event("assert", o.message))
    ELSE pc' = "asserts" /\ effects' = effects

\* One round of the loop of _handle_asserts: passed, message =
\* evaluate_fn(expr, result)
HandleAssert ==
    /\ pc = "asserts"
    /\ evaluations < Len(assert_exprs)
    /\ expr' = assert_exprs[evaluations + 1]
    /\ evaluations' = evaluations + 1
    /\ outcome' = evaluate_assert(heap, expr', status_code, data)
    /\ Handled(outcome')
    /\ UNCHANGED <<filterVars, status_code, parsed, diffVars, depVars, dirVars,
                   runArgs, last_saved>>

\* _handle_asserts returns: no expressions, or the loop is over.  _cmd_replay
\* goes on with _handle_snapshot_ops, the others with the exports.
ReturnAsserts ==
    /\ pc = "asserts"
    /\ evaluations = Len(assert_exprs)
    /\ pc' = CASE mode = "replay" -> "snapshot"
                [] mode = "template" -> "auto_exports"
                [] OTHER -> "exports"
    /\ UNCHANGED <<filterVars, assertVars, diffVars, depVars, dirVars,
                   runArgs, evaluations, effects, last_saved>>

\* The lines an export loop printed, and where the run goes on: to next,
\* or out with the exception extract_value raised.
Echoed(r, next) ==
    /\ effects' = effects \o [i \in 1..Len(r.lines) |->
                                 Event("export", r.lines[i])]
    /\ pc' = IF r.err THEN "traceback" ELSE next

\* The auto-exports of _cmd_template: exports = req.get("exports", {}); if
\* exports and result.body: for ename, epath in exports.items(): ...
TemplateExports ==
    /\ pc = "auto_exports"
    /\ Echoed(GuardedExportLines(template.exports, response.body), "exports")
    /\ UNCHANGED <<filterVars, assertVars, diffVars, depVars, dirVars,
                   runArgs, evaluations, last_saved>>

\* _handle_exports(export, result, extract_value)
HandleExports ==
    /\ pc = "exports"
    /\ Echoed(GuardedExportLines(ExportItems(export), response.body),
                "snapshot")
    /\ UNCHANGED <<filterVars, assertVars, diffVars, depVars, dirVars,
                   runArgs, evaluations, last_saved>>

\* What the run does with what save_snapshot returned, saved: the file
\* system is as the call left it and the path is printed, or the exception
\* leaves the run.  op tells the save of --snapshot from the auto-snapshot.
Saved(saved, name, op, next) ==
    /\ disk' = saved.files
    /\ IF saved.err
       THEN /\ pc' = "traceback"
            /\ UNCHANGED <<effects, last_saved>>
       ELSE /\ pc' = next
            /\ effects' = Append(effects,
                                 Event(op, PathStr(saved.path)))
            /\ last_saved' = (name :> response) @@ last_saved

\* The snap_name part of _handle_snapshot_ops with snap_name = name
SaveAs(name, op, next) ==
    IF name # <<>>
    THEN Saved(save_snapshot(disk, name, response,
                             resolve_resource_dir(disk, Snapshots,
                                                  cli_override, config,
                                                  Path(Snapshots)),
                             runs),
               name, op, next)
    ELSE pc' = next /\ UNCHANGED <<disk, effects, last_saved>>

\* _handle_snapshot_ops(snapshot_ctx, result), if snap_name: ...
SaveSnapshot ==
    /\ pc = "snapshot"
    /\ SaveAs(snapshot_ctx.snapshot_name, "snapshot", "diff")
    /\ UNCHANGED <<filterVars, assertVars, diffVars, depVars, cli_override,
                   config, default, resolved, runArgs, evaluations>>

\* Where the run goes on after _handle_snapshot_ops returned
AfterSnapshotOps == IF mode = "template" THEN "auto_snapshot" ELSE "done"

\* What the run does with the snapshot load_fn returned, loaded
Diffed(loaded) ==
    IF ~loaded.found
    THEN /\ effects' = Append(effects,
                              Event("notfound", snapshot_ctx.diff_name))
         /\ pc' = "exit"
         /\ UNCHANGED <<snapshot, diffs>>
    ELSE /\ snapshot' = loaded.snap
         /\ diffs' = diff_snapshot(loaded.snap, response)
         /\ IF diffs' # <<>>
            THEN /\ effects' = Append(effects, Event("differences", <<>>))
                 /\ pc' = "exit"
            ELSE /\ effects' = Append(effects, Event("nodiff", <<>>))
                 /\ pc' = AfterSnapshotOps

\* _handle_snapshot_ops(snapshot_ctx, result), if diff_name: ...
DiffAgainst ==
    /\ pc = "diff"
    /\ IF snapshot_ctx.diff_name # <<>>
       THEN Diffed(load_snapshot(disk, snapshot_ctx.diff_name, config,
                                 cli_override))
       ELSE pc' = AfterSnapshotOps /\ UNCHANGED <<snapshot, diffs, effects>>
    /\ UNCHANGED <<filterVars, assertVars, response, depVars, dirVars,
                   runArgs, evaluations, last_saved>>

\* The auto-snapshot of _cmd_template: auto_name = snap_cfg.get("name") or
\* template_name
AutoSnapshot ==
    /\ pc = "auto_snapshot"
    /\ IF template.snapshot.enabled
       THEN SaveAs(IF template.snapshot.name # <<>>
                   THEN template.snapshot.name ELSE template.name,
                   "auto_snapshot", "done")
       ELSE pc' = "done" /\ UNCHANGED <<disk, effects, last_saved>>
    /\ UNCHANGED <<filterVars, assertVars, diffVars, depVars, cli_override,
                   config, default, resolved, runArgs, evaluations>>

RunNext ==
    CheckError \/ FormatOutput \/ SaveToHistory \/ HandleAssert
    \/ ReturnAsserts \/ TemplateExports \/ HandleExports \/ SaveSnapshot
    \/ DiffAgainst \/ AutoSnapshot

RunSpec == RunInit /\ [][RunNext]_vars

(***************************************************************************)
(* Runs one after another with --snapshot and --diff, under one            *)
(* --snapshots-dir value, config and working directory.  Only              *)
(* _handle_snapshot_ops reads or writes the snapshot files, so a run is    *)
(* taken up where it calls it.                                             *)
(***************************************************************************)

\* The most runs made one after another.
MaxRuns == 3

\* The responses of the runs: {"a": 1} and {"a": 1, "b": 2}, both 200
SnapshotResponses ==
    {[status_code |-> 200, headers |-> Kh :> <<"1">>, body |-> b] :
        b \in {BodyA1, BodyA1B2}}

\* --snapshots-dir: not given or /o; snapshots_dir: not set or "s" in
\* /p/.reqcap.yaml; of /o, /p/s and ./snapshots any may exist, empty.
SnapshotOverrides == {<<>>, <<"/", "o">>}
SnapshotConfigs ==
    {[value |-> <<>>, dir |-> NoPath],
     [value |-> <<"s">>, dir |-> Path(<<"/", "p">>)]}
SnapshotDirs ==
    {Path(<<"/", "o">>).parts, Path(<<"/", "p", "/", "s">>).parts,
     Join(Cwd, Path(Snapshots)).parts}

SnapshotInit ==
    /\ mode = "direct"
    /\ result_error = FALSE
    /\ assert_exprs = <<>>
    /\ evaluations = 0
    /\ effects = <<>>
    /\ export = <<>>
    /\ template = NoTemplate
    /\ snapshot_ctx \in [snapshot_name : SnapshotNames,
                          diff_name : SnapshotNames]
    /\ runs = 1
    /\ last_saved = <<>>
    /\ response \in SnapshotResponses
    /\ snapshot = NoSnapshot.snap
    /\ diffs = <<>>
    /\ cli_override \in SnapshotOverrides
    /\ config \in SnapshotConfigs
    /\ disk \in {[dirs |-> ds, files |-> <<>>] : ds \in SUBSET SnapshotDirs}
    /\ default = NoPath
    /\ resolved = NoPath
    /\ pc = "snapshot"
    /\ ext = NoExt
    /\ FilterIdle /\ AssertIdle /\ DepsIdle

\* The run is over and the next one is started: another command line, the
\* same directories and files.
NextRun ==
    /\ pc \in {"done", "exit", "traceback"}
    /\ runs < MaxRuns
    /\ runs' = runs + 1
    /\ snapshot_ctx' \in [snapshot_name : SnapshotNames,
                           diff_name : SnapshotNames]
    /\ response' \in SnapshotResponses
    /\ effects' = <<>>
    /\ snapshot' = NoSnapshot.snap
    /\ diffs' = <<>>
    /\ pc' = "snapshot"
    /\ UNCHANGED <<filterVars, assertVars, depVars, dirVars, mode,
                   result_error, assert_exprs, export, template, evaluations,
                   last_saved>>

SnapshotNext == SaveSnapshot \/ DiffAgainst \/ NextRun

SnapshotSpec == SnapshotInit /\ [][SnapshotNext]_vars

(***************************************************************************)
(* Properties                                                              *)
(***************************************************************************)

\* The source document as it is when the call starts, on a heap of its own.
H0 == Alloc(<<>>, doc).h
D0 == Alloc(<<>>, doc).v

Returned == pc \in {"returned", "extracted"}

\* The call went through the for loop and returned the result dict.
Filtered == Returned /\ ~PassThrough(H0, D0, field_specs)

SegsOf(spec) == parse_path_segments(spec).segs
PrefixOf(spec) == SubSeq(SegsOf(spec), 1, CollIdx(SegsOf(spec)) - 1)
SuffixOf(spec) == SubSeq(SegsOf(spec), CollIdx(SegsOf(spec)) + 1,
                         Len(SegsOf(spec)))

\* A path of Key and non-negative Index segments only.
IsPlainPath(spec) ==
    /\ ~parse_path_segments(spec).err
    /\ SegsOf(spec) # <<>>
    /\ CollIdx(SegsOf(spec)) = 0

IsKeyPath(spec) ==
    /\ IsPlainPath(spec)
    /\ \A i \in 1..Len(SegsOf(spec)) : SegsOf(spec)[i].kind = "key"

ResolvesIn(h, d, spec) == get_value(h, d, SegsOf(spec)).found

\* A single spec with a collection segment of one of the kinds given whose
\* prefix resolves to a source array from which it selects something.
SelectsFrom(spec, kinds) ==
    /\ ~parse_path_segments(spec).err
    /\ CollIdx(SegsOf(spec)) > 0
    /\ SegsOf(spec)[CollIdx(SegsOf(spec))].kind \in kinds
    /\ get_value(H0, D0, PrefixOf(spec)).found
    /\ IsList(H0, get_value(H0, D0, PrefixOf(spec)).v)
    /\ resolve_list_segment(H0[get_value(H0, D0, PrefixOf(spec)).v.n].c,
                            SegsOf(spec)[CollIdx(SegsOf(spec))]) # <<>>

SourcePairs(spec) ==
    resolve_list_segment(H0[get_value(H0, D0, PrefixOf(spec)).v.n].c,
                         SegsOf(spec)[CollIdx(SegsOf(spec))])

\* The projected element e (in the current heap) is the suffix projection of
\* the source element item (in the source as it was): the element itself
\* without a suffix, a container holding just the suffix value when the
\* suffix resolves in the source element, {} otherwise.
ElementProjected(e, item, suffix) ==
    IF suffix = <<>> THEN Deref(heap, e) = Deref(H0, item)
    ELSE IF get_value(H0, item, suffix).found
    THEN /\ e.t = "ref"
         /\ IsDict(heap, e) => Len(heap[e.n].c) = 1
         /\ get_value(heap, e, suffix).found
         /\ Deref(heap, get_value(heap, e, suffix).v)
              = Deref(H0, get_value(H0, item, suffix).v)
    ELSE Deref(heap, e) = EmptyObj

\* The projected array of a single spec, found in the result at prefix.
ProjectedArrayIs(prefix, n) ==
    /\ get_value(heap, ret, prefix).found
    /\ IsList(heap, get_value(heap, ret, prefix).v)
    /\ Len(heap[get_value(heap, ret, prefix).v.n].c) = n

ProjectedElem(prefix, i) == heap[get_value(heap, ret, prefix).v.n].c[i].v

\* C1: projection round trip.  For an Object v and a path p of Key and
\* non-negative Index segments that resolves in v,
\* extract_value(filter_response(v, [p]), p) = extract_value(v, p).
C1_RoundTrip ==
    (/\ pc = "extracted"
     /\ Len(field_specs) = 1
     /\ doc.t = "obj"
     /\ IsPlainPath(ext.path)
     /\ ResolvesIn(H0, D0, ext.path))
    => (/\ ~ext.err
        /\ JsonEq(ext.v, extract_value(H0, D0, ext.path).v))

\* C2: the engine never aborts.  Neither filter_response nor extract_value
\* raises, whatever the value and the specs.
C2_NeverRaises == pc # "raised" /\ ~ext.err

\* C3: filter_response never mutates its input.  The document the data
\* argument refers to is, at every moment, what it was before the call.
C3_InputUnchanged == Deref(heap, data) = doc

\* C4: iteration alignment.  For a single spec prefix[].suffix whose prefix
\* resolves to a non-empty source array of length n, the projected array at
\* prefix has exactly n elements and element i is the suffix projection of
\* source element i ({} when the suffix does not resolve in it).
C4_IterationAligned ==
    (/\ Returned
     /\ Len(field_specs) = 1
     /\ doc.t = "obj"
     /\ SelectsFrom(field_specs[1], {"iter"}))
    => LET spec == field_specs[1]
           pairs == SourcePairs(spec)
       IN  /\ ProjectedArrayIs(PrefixOf(spec), Len(pairs))
           /\ \A i \in 1..Len(pairs) :
                 ElementProjected(ProjectedElem(PrefixOf(spec), i),
                                  pairs[i].item, SuffixOf(spec))

\* The suffix of the spec resolves in every source element it selects.
SuffixResolvesInAll(spec) ==
    \A i \in 1..Len(SourcePairs(spec)) :
        get_value(H0, SourcePairs(spec)[i].item, SuffixOf(spec)).found

\* C5: slice and negative-index compaction.  For a single spec whose
\* collection segment is a Slice or a negative Index over a source array
\* (and whose suffix, if any, resolves in the selected elements), the
\* projected array holds exactly the selected elements, each replaced by
\* its suffix projection, in source order, re-indexed from 0, no padding.
C5_SliceCompact ==
    (/\ Returned
     /\ Len(field_specs) = 1
     /\ doc.t = "obj"
     /\ SelectsFrom(field_specs[1], {"slice", "idx"})
     /\ SuffixResolvesInAll(field_specs[1]))
    => LET spec == field_specs[1]
           pairs == SourcePairs(spec)
       IN  /\ ProjectedArrayIs(PrefixOf(spec), Len(pairs))
           /\ \A i \in 1..Len(pairs) :
                 ElementProjected(ProjectedElem(PrefixOf(spec), i),
                                  pairs[i].item, SuffixOf(spec))

\* The position of the first Index segment of a plain path, or 0.
FirstIdx(segments) ==
    LET is == {i \in 1..Len(segments) : segments[i].kind = "idx"}
    IN  IF is = {} THEN 0 ELSE CHOOSE i \in is : \A j \in is : i <= j

\* C6: single non-negative index.  For a single spec arr[k].suffix with
\* 0 <= k < len(arr), the projected array at arr contains exactly one
\* element, the suffix projection of source element k.
C6_SingleIndex ==
    (/\ Returned
     /\ Len(field_specs) = 1
     /\ doc.t = "obj"
     /\ IsPlainPath(field_specs[1])
     /\ FirstIdx(SegsOf(field_specs[1])) > 1
     /\ FirstIdx(SegsOf(field_specs[1])) < Len(SegsOf(field_specs[1]))
     /\ ResolvesIn(H0, D0, field_specs[1]))
    => LET segs == SegsOf(field_specs[1])
           k == FirstIdx(segs)
           arr == SubSeq(segs, 1, k - 1)
           suffix == SubSeq(segs, k + 1, Len(segs))
           item == get_value(H0, D0, SubSeq(segs, 1, k)).v
       IN  /\ ProjectedArrayIs(arr, 1)
           /\ ElementProjected(ProjectedElem(arr, 1), item, suffix)

\* C7: pass-through.  filter_response(v, specs) returns v itself, unchanged,
\* when specs is empty, when specs contains the literal "*" (alone or among
\* other specs), or when v is not an Object.
C7_PassThrough ==
    (/\ Returned
     /\ \/ field_specs = <<>>
        \/ Contains(field_specs, <<"*">>)
        \/ doc.t # "obj")
    => (ret = data /\ heap = H0 /\ Deref(heap, ret) = doc)

\* C7 witness: a call on an Object with the wildcard among other specs that
\* resolve has returned.
C7_Witness ==
    /\ pc = "returned"
    /\ doc = DocNested
    /\ field_specs = <<SpecA, SpecStarLit>>

\* The field of a spec does not exist in the source: a plain path that does
\* not resolve, or a collection path whose prefix is no array or whose
\* suffix resolves in none of the selected elements.
FieldMissing(spec) ==
    /\ ~parse_path_segments(spec).err
    /\ SegsOf(spec) # <<>>
    /\ IF CollIdx(SegsOf(spec)) = 0 THEN ~ResolvesIn(H0, D0, spec)
       ELSE LET g == get_value(H0, D0, PrefixOf(spec))
            IN  \/ ~g.found
                \/ ~IsList(H0, g.v)
                \/ /\ SuffixOf(spec) # <<>>
                   /\ \A i \in 1..Len(SourcePairs(spec)) :
                         ~get_value(H0, SourcePairs(spec)[i].item,
                                    SuffixOf(spec)).found

Front(seq) == SubSeq(seq, 1, Len(seq) - 1)
Last(seq) == seq[Len(seq)]

\* What filter_response(v, S) projects, {} when S has no spec to apply.
ProjectionOf(S) ==
    IF Cleaned(S) = <<>> THEN EmptyObj
    ELSE Deref(filter_response(H0, D0, S).h, filter_response(H0, D0, S).ret)

RECURSIVE SpelledAsSource(_, _)
SpelledAsSource(r, s) ==
    IF r.t = "obj" /\ s.t = "obj"
    THEN \A i \in 1..Len(r.c) : \E j \in 1..Len(s.c) :
            r.c[i].k = s.c[j].k /\ SpelledAsSource(r.c[i].v, s.c[j].v)
    ELSE TRUE

\* C9: output key casing.  Every key written into the projection is spelled
\* as the matching key of the source document at that level, not as the
\* spec spells it.
C9_SourceCasing ==
    (/\ Filtered
     /\ Len(field_specs) = 1
     /\ IsKeyPath(field_specs[1])
     /\ ResolvesIn(H0, D0, field_specs[1]))
    => SpelledAsSource(Deref(heap, ret), doc)

\* C10: spec order is immaterial.  For an Object v and two specs a and b,
\* filter_response(v, [a, b]) = filter_response(v, [b, a]).
C10_OrderImmaterial ==
    (/\ Filtered
     /\ Len(field_specs) = 2)
    => LET swapped == filter_response(H0, D0,
                                      <<field_specs[2], field_specs[1]>>)
       IN  /\ ~swapped.err
           /\ JsonEq(Deref(heap, ret), Deref(swapped.h, swapped.ret))

\* Both specs iterate the same source array: prefix[].s1 and prefix[].s2
\* with different suffixes.
IterateSameArray(s1, s2) ==
    /\ SelectsFrom(s1, {"iter"})
    /\ SelectsFrom(s2, {"iter"})
    /\ PrefixOf(s1) = PrefixOf(s2)
    /\ SuffixOf(s1) # SuffixOf(s2)

\* C11: merging two iterations of the same array.  For two specs arr[].s1
\* and arr[].s2 over the same source array, applying them in either order
\* yields the same merged projected array, of the source array's length.
C11_IterationsMerge ==
    (/\ Filtered
     /\ Len(field_specs) = 2
     /\ IterateSameArray(field_specs[1], field_specs[2]))
    => LET swapped == filter_response(H0, D0,
                                      <<field_specs[2], field_specs[1]>>)
       IN  /\ ~swapped.err
           /\ JsonEq(Deref(heap, ret), Deref(swapped.h, swapped.ret))
           /\ ProjectedArrayIs(PrefixOf(field_specs[1]),
                               Len(SourcePairs(field_specs[1])))

\* C12: duplicate specs are harmless.  For a spec list S and a spec s
\* already in S, filter_response(v, S ++ [s]) = filter_response(v, S).
C12_DuplicateHarmless ==
    (/\ Filtered
     /\ Len(field_specs) >= 2
     /\ Contains(Front(field_specs), Last(field_specs)))
    => JsonEq(Deref(heap, ret), ProjectionOf(Front(field_specs)))

\* The path of the last extract_value call without its optional prefix.
Unprefixed(path) ==
    IF HasBodyPrefix(Strip(path))
    THEN SubSeq(Strip(path), 6, Len(Strip(path)))
    ELSE Strip(path)

\* Python's normalisation of a slice bound against a list of length len.
Clamp(x, len) ==
    IF x < 0 THEN (IF x + len < 0 THEN 0 ELSE x + len)
    ELSE IF x > len THEN len ELSE x

\* Element i (0-based) of an array of length len is selected by seg.
Selects(seg, len, i) ==
    \/ seg.kind = "iter"
    \/ /\ seg.kind = "slice"
       /\ (IF seg.ha THEN Clamp(seg.a, len) ELSE 0) <= i
       /\ i < (IF seg.hb THEN Clamp(seg.b, len) ELSE len)

\* The suffix values of the selected elements of items from position i on,
\* in source order, elements where the suffix does not resolve left out.
RECURSIVE SuffixValues(_, _, _, _, _)
SuffixValues(h, items, seg, suffix, i) ==
    IF i > Len(items) THEN <<>>
    ELSE (IF /\ Selects(seg, Len(items), i - 1)
             /\ get_value(h, items[i].v, suffix).found
          THEN <<Deref(h, get_value(h, items[i].v, suffix).v)>>
          ELSE <<>>)
         \o SuffixValues(h, items, seg, suffix, i + 1)

\* What C13 says extract_value returns for segments whose first Iterate or
\* Slice segment is at position k.
CollectionValue(h, d, segs, k) ==
    LET g == get_value(h, d, SubSeq(segs, 1, k - 1))
    IN  IF g.found /\ IsList(h, g.v)
        THEN Arr(SuffixValues(h, h[g.v.n].c, segs[k],
                              SubSeq(segs, k + 1, Len(segs)), 1))
        ELSE Null

\* The last call was extract_value on a path that parses and contains an
\* Iterate or Slice segment.
ExportedCollection ==
    /\ pc = "exported"
    /\ ~parse_path_segments(Unprefixed(ext.path)).err
    /\ ExtractCollIdx(SegsOf(Unprefixed(ext.path))) > 0

C14_BodyPrefixOptional ==
    (/\ pc = "exported"
     /\ HasBodyPrefix(ext.path))
    => (/\ ext.err = extract_value(heap, data,
                                   SubSeq(ext.path, 6, Len(ext.path))).err
        /\ ext.v = extract_value(heap, data,
                                 SubSeq(ext.path, 6, Len(ext.path))).v)

\* C14 amended: the same equality for every path p that does not itself
\* begin, once trimmed, with body. in any letter case.
C14_BodyPrefixOnce ==
    (/\ pc = "exported"
     /\ HasBodyPrefix(ext.path)
     /\ ~HasBodyPrefix(Strip(SubSeq(ext.path, 6, Len(ext.path)))))
    => (/\ ext.err = extract_value(heap, data,
                                   SubSeq(ext.path, 6, Len(ext.path))).err
        /\ ext.v = extract_value(heap, data,
                                 SubSeq(ext.path, 6, Len(ext.path))).v)

\* C14 witness: a path given as "Body.a.b" extracted the value of a.b.
C14_Witness ==
    /\ pc = "exported"
    /\ doc = DocNested
    /\ ext.path = <<"B", "o", "d", "y", ".">> \o SpecAB
    /\ ext.v = Num(1)

\* parse_assert has returned or raised.
ParseDone == pc \in {"parsed", "invalid", "asserted", "raised"}

\* The expression contains sub.
Occurs(e, sub) ==
    \E i \in 1..Len(e) : i + Len(sub) - 1 <= Len(e)
                         /\ SubSeq(e, i, i + Len(sub) - 1) = sub

\* The position of the first occurrence of sub in e.
FirstAt(e, sub) ==
    CHOOSE i \in 1..Len(e) :
        /\ i + Len(sub) - 1 <= Len(e)
        /\ SubSeq(e, i, i + Len(sub) - 1) = sub
        /\ \A j \in 1..(i - 1) : SubSeq(e, j, j + Len(sub) - 1) # sub

\* The delimiter parse_assert is to split at: "!=" if it occurs, else "=".
Delimiter(e) == IF Occurs(e, NotEquals) THEN NotEquals ELSE Equals

TextBefore(e) == SubSeq(e, 1, FirstAt(e, Delimiter(e)) - 1)
TextAfter(e) ==
    SubSeq(e, FirstAt(e, Delimiter(e)) + Len(Delimiter(e)), Len(e))

\* C15 as stated: parse_assert splits at the first "!=" if there is one,
\* otherwise at the first "=", and returns the text before it, the
\* delimiter and the text after it verbatim.
C15_SplitVerbatim ==
    (ParseDone /\ Occurs(expr, Equals))
    => (/\ ~parsed.err
        /\ parsed.path = TextBefore(expr)
        /\ parsed.op = Delimiter(expr)
        /\ parsed.expected = TextAfter(expr))

\* C15 amended: the same split, the text before and the text after the
\* delimiter each stripped of leading and trailing whitespace.
C15_SplitStripped ==
    (ParseDone /\ Occurs(expr, Equals))
    => (/\ ~parsed.err
        /\ parsed.path = Strip(TextBefore(expr))
        /\ parsed.op = Delimiter(expr)
        /\ parsed.expected = Strip(TextAfter(expr)))

\* C15 witness: "a = x=1" was split at its first "=", the expected text
\* keeping its own "=".
C15_Witness ==
    /\ pc = "parsed"
    /\ expr = <<"a", " ", "=", " ", "x", "=", "1">>
    /\ parsed = [err |-> FALSE, path |-> <<"a">>, op |-> Equals,
                 expected |-> <<"x", "=", "1">>]

\* C16: malformed assertions are the only hard error.  parse_assert, and
\* therefore evaluate_assert, fails exactly when the expression contains
\* neither "=" nor "!=".
C16_OnlyMalformedFails ==
    /\ ParseDone => (parsed.err <=> ~Occurs(expr, Equals))
    /\ pc \in {"invalid", "asserted", "raised"}
          => (pc \in {"invalid", "raised"} <=> ~Occurs(expr, Equals))

\* The actual value C17 describes: the status code for the path "status",
\* otherwise what extract_value finds in the body.
ClaimedActual ==
    IF parsed.path = StatusPath THEN Num(status_code)
    ELSE extract_value(heap, data, parsed.path).v

\* C17: assertion evaluation.  evaluate_assert compares String(actual), ""
\* for an absent or null value, with the expected literal: "=" passes iff
\* they are equal, "!=" iff they differ; path= passes exactly when the field
\* is missing or null; nothing is raised; a failure message carries the
\* actual string.
C17_Evaluation ==
    /\ pc # "raised"
    /\ pc = "asserted"
         => /\ outcome.actual = ActualStr(ClaimedActual)
            /\ parsed.op = Equals
                 => (outcome.passed <=> ActualStr(ClaimedActual) = parsed.expected)
            /\ parsed.op = NotEquals
                 => (outcome.passed <=> ActualStr(ClaimedActual) # parsed.expected)
            /\ (parsed.op = Equals /\ parsed.expected = <<>>
                /\ parsed.path # StatusPath)
                 => (outcome.passed <=> ClaimedActual = Null)
            /\ ~outcome.passed
                 => Occurs(outcome.message, ActualStr(ClaimedActual))

\* C18: the diff is empty exactly for identical responses.
\* diff_snapshot(snapshot, response) = [] if and only if the status codes
\* are equal and the bodies are deeply equal.
C18_EmptyIffIdentical ==
    pc = "diffed"
    => (diffs = <<>>
        <=> /\ snapshot.status_code = response.status_code
            /\ JsonEq(snapshot.body, response.body))

\* The lines C19 describes for the keys given, in their order, of two
\* Objects old (snapshot) and new (live) found at the path prefix.
RECURSIVE ClaimedLines(_, _, _, _)
ClaimedLines(prefix, old, new, keys) ==
    IF keys = <<>> THEN <<>>
    ELSE LET key == Head(keys)
             path == prefix \o <<".">> \o key
         IN  (IF key \notin KeysOf(old)
              THEN <<DiffLine(path, Absent, summarize(ItemOf(new, key)))>>
              ELSE IF key \notin KeysOf(new)
              THEN <<DiffLine(path, summarize(ItemOf(old, key)), Absent)>>
              ELSE IF ItemOf(old, key).t = "obj" /\ ItemOf(new, key).t = "obj"
              THEN ClaimedLines(path, ItemOf(old, key), ItemOf(new, key),
                                Sorted(KeysOf(ItemOf(old, key))
                                       \cup KeysOf(ItemOf(new, key))))
              ELSE IF ~JsonEq(ItemOf(old, key), ItemOf(new, key))
              THEN <<DiffLine(path, summarize(ItemOf(old, key)),
                              summarize(ItemOf(new, key)))>>
              ELSE <<>>)
             \o ClaimedLines(prefix, old, new, Tail(keys))

\* C19: diff line structure for Object bodies.  The status_code line, if
\* any, comes first; then, over the sorted union of the keys at each level,
\* depth-first: one line for a key only in the live body, one for a key only
\* in the snapshot, the lines of the recursion when both values are Objects,
\* one line when the values are unequal and not both Objects, nothing when
\* they are equal.
C19_LineStructure ==
    (/\ pc = "diffed"
     /\ snapshot.body.t = "obj"
     /\ response.body.t = "obj")
    => diffs
       = (IF snapshot.status_code # response.status_code
          THEN <<DiffLine(StatusCodeLabel, IntStr(snapshot.status_code),
                          IntStr(response.status_code))>>
          ELSE <<>>)
         \o ClaimedLines(BodyPath, snapshot.body, response.body,
                         Sorted(KeysOf(snapshot.body)
                                \cup KeysOf(response.body)))

\* The lookup names of the templates on the current dependency path.
OnPath == {frames[i].stem : i \in 1..Len(frames)}

\* Following depends has reached a template that is already on the current
\* dependency path: the call in progress is about to visit one, or one has
\* been entered a second time.
CycleReached ==
    /\ frames # <<>>
    /\ \/ \E i, j \in 1..Len(frames) : i < j /\ frames[i].stem = frames[j].stem
       \/ /\ Top(frames).ph = "check"
          /\ Top(frames).i <= Len(Top(frames).depends)
          /\ Top(frames).depends[Top(frames).i] \in OnPath

\* The templates that depends lists lead to from stem in at most n steps.
RECURSIVE ReachedFrom(_, _)
ReachedFrom(stem, n) ==
    IF n = 0 \/ stem \notin DOMAIN templates THEN {}
    ELSE LET direct == {templates[stem].depends[i] :
                          i \in 1..Len(templates[stem].depends)}
         IN  direct \cup UNION {ReachedFrom(d, n - 1) : d \in direct}

\* Some template that the requested one leads to, or the requested one,
\* leads back to itself.
CycleReachable ==
    \E t \in ReachedFrom(requested, 3) \cup {requested} :
        t \in ReachedFrom(t, 3)

\* C20: circular dependencies are detected.  If following depends reaches a
\* template that is already on the current dependency path, the run ends
\* with the "Circular dependency detected" error, and the request of the
\* requested template is never executed.
C20_CycleDetected ==
    /\ (pc = "exit" /\ CycleReached) => error = Circular
    /\ pc = "done" => ~CycleReachable

\* xs is an initial part of ys.
IsPrefix(xs, ys) == Len(xs) <= Len(ys) /\ xs = SubSeq(ys, 1, Len(xs))

\* The depth-first walk from stem over at most n levels of depends: the walks
\* of its dependencies one after the other in declared order, then stem.
RECURSIVE DepthFirst(_, _)
RECURSIVE DepthFirstAll(_, _)
DepthFirst(stem, n) ==
    IF n = 0 \/ stem \notin DOMAIN templates THEN <<stem>>
    ELSE DepthFirstAll(templates[stem].depends, n - 1) \o <<stem>>

DepthFirstAll(deps, n) ==
    IF deps = <<>> THEN <<>>
    ELSE DepthFirst(Head(deps), n) \o DepthFirstAll(Tail(deps), n)

Exported(i, name) ==
    /\ name \in DOMAIN exports[executed[i]]
    /\ ExportedValue(responses[i], exports[executed[i]][name]) # Null

\* The last dependency request sent that exported name, 0 if none did.
LastExported(name) ==
    IF \E i \in 1..Len(responses) : Exported(i, name)
    THEN CHOOSE i \in 1..Len(responses) :
            /\ Exported(i, name)
            /\ \A j \in (i + 1)..Len(responses) : ~Exported(j, name)
    ELSE 0

\* The text of the value the i-th dependency request exported under name.
ExportedText(i, name) ==
    ActualStr(ExportedValue(responses[i], exports[executed[i]][name]))

\* vs holds for name what the claim says it holds.
Precedes(vs, name) ==
    IF name \in DOMAIN cli_vars
    THEN name \in DOMAIN vs /\ vs[name] = cli_vars[name]
    ELSE IF LastExported(name) = 0 THEN name \notin DOMAIN vs
    ELSE /\ name \in DOMAIN vs
         /\ vs[name] = ExportedText(LastExported(name), name)

\* C22: variable precedence across a dependency chain.  In the variables
\* the next request is built from, a dependency's or the requested
\* template's, a name given with -v has its -v value, and any other name has
\* the value exported, non-null, by the last dependency request sent that
\* exported it, and is absent if none did.
C22_Precedence ==
    \A name \in {Kt, Ku} : Precedes(Top(variables), name)

\* a depends on b, which depends on c; c exports t = a.b and u = d and
\* answers a.b = 1, d = 3; b exports t = d and answers d = 3: a is built
\* with t = 3 and u = 3, and with t = 9 under -v t=9.
C22_Witness ==
    /\ pc = "done"
    /\ executed = <<TemplateC, Kb, Ka>>
    /\ exports[TemplateC] = ExportsTU
    /\ exports[Kb] = ExportsT
    /\ responses = <<DocNested, DocNested>>
    /\ \/ variables = <<(Kt :> <<"3">>) @@ (Ku :> <<"3">>)>>
       \/ cli_vars # <<>> /\ variables = <<(Kt :> <<"9">>) @@ (Ku :> <<"3">>)>>

\* The call in progress is about to load a dependency that has no file.
CannotLoad ==
    /\ pc = "deps"
    /\ Top(frames).ph = "check"
    /\ Top(frames).i <= Len(Top(frames).depends)
    /\ Top(frames).depends[Top(frames).i] \notin DOMAIN templates

\* C23: a failed dependency aborts the chain.  A dependency that cannot be
\* loaded ends the run with an error that names it, without a request being
\* sent; a dependency whose request fails ends the run with an error that
\* names it, its request being the last one sent; and nothing happens after
\* the exit, so the request of the requested template is never sent.
C23_FailedDependencyAborts ==
    [][/\ CannotLoad =>
            /\ pc' = "exit"
            /\ named' = Top(frames).depends[Top(frames).i]
            /\ executed' = executed
       /\ error' = DependencyFailed =>
            /\ pc' = "exit"
            /\ named' = executed'[Len(executed')]
            /\ named' = Top(frames).depends[Top(frames).i]
       /\ pc # "exit"]_vars

\* a depends on b and c, b on c: the request of c was sent, the request of b
\* failed, and the run ended before c was sent again and a was sent.
C23_Witness ==
    /\ pc = "exit"
    /\ error = DependencyFailed
    /\ named = Kb
    /\ requested = Ka
    /\ templates[Ka].depends = <<Kb, TemplateC>>
    /\ executed = <<TemplateC, Kb>>

\* evaluate_fn returns (False, message) for the expression e.
Fails(o) == ~o.err /\ ~o.passed

FailsAt(i) ==
    Fails(evaluate_assert(heap, assert_exprs[i], status_code, data))

\* The position of the first expression that fails, 0 if none does.
FirstFailing ==
    IF \E i \in 1..Len(assert_exprs) : FailsAt(i)
    THEN CHOOSE i \in 1..Len(assert_exprs) :
            FailsAt(i) /\ \A j \in 1..(i - 1) : ~FailsAt(j)
    ELSE 0

\* Every expression has a delimiter.
WellFormed ==
    \A i \in 1..Len(assert_exprs) : ~parse_assert(assert_exprs[i]).err

IsAssertMessage(ev) == ev.op = "assert"

\* C24: assertions stop at the first failure.  For --assert expressions that
\* all have a delimiter, when _handle_asserts is over the process has
\* ended with exit code 1 iff some expression fails; then the message of the
\* first failing one is the only one printed and no expression after it was
\* evaluated; if all pass nothing is printed and the run goes on.
C24_StopAtFirstFailure ==
    [][(pc = "asserts" /\ pc' # "asserts" /\ WellFormed) =>
          /\ pc' \in {"exit", "traceback"} <=> FirstFailing # 0
          /\ FirstFailing # 0 =>
                /\ evaluations' = FirstFailing
                /\ SelectSeq(effects', IsAssertMessage)
                     = <<Event("assert",
                               evaluate_assert(heap,
                                               assert_exprs[FirstFailing],
                                               status_code, data).message)>>
          /\ FirstFailing = 0 =>
                /\ evaluations' = Len(assert_exprs)
                /\ effects' = effects]_vars

\* A directory exists at p; something, a directory or a file, exists at p.
IsDir(p) == p.parts \in disk.dirs
IsPresent(p) == p.parts \in disk.dirs \cup DOMAIN disk.files

\* The directories the claim names: the --snapshots-dir value taken from
\* the working directory, the config value taken from the config file's
\* directory, ./snapshots and ~/.reqcap/snapshots.
OverrideDir == Join(Cwd, Path(cli_override))
ConfigDir == Join(config.dir, Path(config.value))
CwdDir == Join(Cwd, Path(Snapshots))
GlobalDir == Join(GLOBAL_DIR, Path(Snapshots))

\* The path the claim has resolve_resource_dir return, with E telling what
\* exists.
ClaimedDir(E(_)) ==
    IF cli_override # <<>>
    THEN (IF E(OverrideDir) THEN OverrideDir ELSE default)
    ELSE IF config.value # <<>> /\ E(ConfigDir) THEN ConfigDir
    ELSE IF E(CwdDir) THEN CwdDir
    ELSE IF E(GlobalDir) THEN GlobalDir
    ELSE default

\* C27: resource directory resolution order.  resolve_resource_dir returns
\* the first existing directory among the one named in config, ./snapshots
\* and ~/.reqcap/snapshots; with a --snapshots-dir value only that one is
\* considered; when none exists the default is returned.
C27_FirstExistingDirectory ==
    pc = "resolved" => resolved = ClaimedDir(IsDir)

\* C27 as amended: the first of these paths at which something exists, be
\* it a directory or not.
C27_FirstExistingPath ==
    pc = "resolved" => resolved = ClaimedDir(IsPresent)

\* snapshots_dir is "s" in /p/.reqcap.yaml, /p/s does not exist, ./snapshots
\* is a file and ~/.reqcap/snapshots a directory: ./snapshots is returned.
C27_Witness ==
    /\ pc = "resolved"
    /\ cli_override = <<>>
    /\ config.value = <<"s">>
    /\ ~IsPresent(ConfigDir)
    /\ CwdDir.parts \in DOMAIN disk.files
    /\ IsDir(GlobalDir)
    /\ resolved = CwdDir

\* C25: a transport error ends the run with nothing else done.  In every
\* request mode, when the result carries an error the run prints the error,
\* exits with code 1, and does none of the post-response steps: no output,
\* no history entry, no assertion evaluated, no export line, no snapshot
\* saved and no diff.
C25_ErrorEndsRun ==
    (result_error /\ pc # "result") =>
        /\ pc = "exit"
        /\ Len(effects) = 1 /\ effects[1].op = "error"
        /\ evaluations = 0
        /\ last_saved = <<>>
        /\ diffs = <<>>

\* A replay with an assertion, --export, --snapshot and --diff whose request
\* failed has exited.
C25_Witness ==
    /\ result_error /\ pc = "exit"
    /\ mode = "replay"
    /\ assert_exprs # <<>> /\ export # <<>>
    /\ snapshot_ctx.snapshot_name = Kn /\ snapshot_ctx.diff_name = Kn

\* The place of a step in the order the claim gives; the auto-snapshot of a
\* template comes after the diff.
StepRank(op) ==
    CASE op = "output" -> 1
      [] op = "history" -> 2
      [] op = "assert" -> 3
      [] op = "export" -> 4
      [] op = "snapshot" -> 5
      [] op \in {"notfound", "differences", "nodiff"} -> 6
      [] op = "auto_snapshot" -> 7
      [] OTHER -> 0

\* The run did the step op.
Did(op) == \E i \in 1..Len(effects) : effects[i].op = op

\* The steps done so far were done in the order of their ranks, and only
\* the export step printed more than once.
InStepOrder ==
    \A i, j \in 1..Len(effects) :
        i < j =>
            \/ StepRank(effects[i].op) < StepRank(effects[j].op)
            \/ effects[i].op = "export" /\ effects[j].op = "export"

DiffedSaved ==
    /\ pc \in {"done", "exit"}
    /\ snapshot_ctx.diff_name # <<>>
    /\ snapshot_ctx.diff_name \in DOMAIN last_saved

\* C26: snapshot save/diff round trip.  After any sequence of runs under
\* one directory configuration, --diff NAME compares against the response
\* most recently saved with --snapshot NAME, so a run whose response is
\* identical to the last saved one finds the snapshot and reports no
\* differences with exit code 0.
C26_RoundTrip ==
    DiffedSaved =>
        /\ ~Did("notfound")
        /\ diffs = diff_snapshot(last_saved[snapshot_ctx.diff_name], response)
        /\ response = last_saved[snapshot_ctx.diff_name] =>
               pc = "done" /\ Did("nodiff")

\* C26 where the --snapshots-dir value, if given, names something that
\* exists.
C26_RoundTripInExistingOverride ==
    (cli_override # <<>> => IsPresent(OverrideDir)) => C26_RoundTrip

\* The members of the dict looked up in, in insertion order
Members == doc.c

\* Member i matches the key exactly; case-insensitively.
MatchesExactly(i) == Members[i].k = ci_key
MatchesCi(i) == Lower(Members[i].k) = Lower(ci_key)

\* Member i is the one returned.
IsReturned(i) ==
    actual.found /\ actual.k = Members[i].k /\ actual.v = Members[i].v

\* C28: case-insensitive key lookup tie-break.  Looking up a key in a dict
\* returns the member whose name matches exactly when there is one, and
\* otherwise the first member in insertion order whose name matches
\* case-insensitively; not-found is reported only when no member matches
\* case-insensitively.
C28_ExactThenFirstCi ==
    pc = "looked" =>
        /\ \A i \in 1..Len(Members) : MatchesExactly(i) => IsReturned(i)
        /\ (\A i \in 1..Len(Members) : ~MatchesExactly(i)) =>
               \A i \in 1..Len(Members) :
                   (MatchesCi(i) /\ \A j \in 1..(i - 1) : ~MatchesCi(j))
                       => IsReturned(i)
        /\ ~actual.found <=> \A i \in 1..Len(Members) : ~MatchesCi(i)

\* "a" was looked up in a dict whose first member is "A" and which has "a"
\* too: the member "a" is returned.
C28_Witness ==
    /\ pc = "looked"
    /\ ci_key = Ka
    /\ Len(Members) >= 2 /\ Members[1].k = <<"A">>
    /\ \E i \in 2..Len(Members) : MatchesExactly(i) /\ IsReturned(i)

\* Two snapshots, and two results, agree on status code and body.
SameStatusAndBody(x, y) == x.status_code = y.status_code /\ x.body = y.body

\* C29: diff is blind to headers and timestamps.  For any two snapshots
\* that agree on status_code and body, whatever their headers and saved_at,
\* and any two results that agree on status code and body, whatever their
\* headers and elapsed time, diff_snapshot returns the same list of lines.
C29_BlindToHeadersAndTimes ==
    pc = "diffed" =>
        \A s \in FullSnapshots, r \in FullResults :
            SameStatusAndBody(s, snapshot) /\ SameStatusAndBody(r, response)
                => diff_snapshot(s, r) = diffs

\* A snapshot and a result with different headers were diffed and the lines
\* tell of the status and the body.
C29_Witness ==
    /\ pc = "diffed"
    /\ snapshot.headers # response.headers
    /\ snapshot.saved_at = 2 /\ response.elapsed_ms = 1
    /\ Len(diffs) = 2

====
